---------------------------- MODULE Spec2Model ----------------------------
(***************************************************************************)
(* State-machine model of the API client generation pipeline of            *)
(* martzmakes/cdk-api-client (packages api-constructs / published-api):    *)
(* the endpoint loader, the interface resolver, the client generator, the  *)
(* mock generator, the template generator and the command line run that    *)
(* chains them over an output directory.                                   *)
(*                                                                         *)
(* Text is modelled as sequences of tokens, files as records with a kind   *)
(* field, a directory as a function from paths (tuples of strings) to file *)
(* contents.                                                               *)
(***************************************************************************)
EXTENDS Integers, Sequences, FiniteSets, TLC

VARIABLES
    inv,          \* inv[r]: command line, declaration module and environment of run r
    pc,           \* pc[r]: position of run r inside main / generateApiClient
    endpointsDef, \* endpointsDef[r]: the records importEndpoints returned to run r
    exitCode,     \* exitCode[r]: -1 while the process runs, then its exit status
    logged,       \* logged[r]: the console.error / console.warn tags run r printed
    written,      \* written[r]: the paths run r has written so far (history)
    disk,         \* disk[d]: the output directory d: [exists, files]
    before,       \* before[r]: disk[inv[r].outDir] as run r found it (history)
    result,       \* result[r]: disk[inv[r].outDir] as run r left it at exit (history)
    phaseStart,   \* phaseStart[r][ph]: the files when optional phase ph began (history)
    ran,          \* ran[r]: the optional phases run r has entered (history)
    toolCalls,    \* number of invocations of the stand-alone mock tool so far
    indexAfter,   \* index.ts contents after each invocation of the mock tool (history)
    vtlInput,     \* the records handed to a direct generateVtlTemplates call
    call,         \* the arguments of an operation invoked on its own
    outcome       \* what that operation did: its result, its requests, its error

vars == <<inv, pc, endpointsDef, exitCode, logged, written, disk, before, result,
          phaseStart, ran, toolCalls, indexAfter, vtlInput, call, outcome>>

---------------------------------------------------------------------------
(* Bounds of the model                                                     *)

\* number of files a previous run may have left in the output directory
MaxPrior == 2
\* number of times the stand-alone mock tool is invoked on one directory
MaxInvocations == 3
\* number of endpoint records handed to a direct generateVtlTemplates call
MaxRecords == 2

---------------------------------------------------------------------------
(* Small helpers over sequences and directories                            *)

Range(s) == {s[i] : i \in DOMAIN s}

NoFiles == [p \in {} |-> [kind |-> "none"]]

Put(files, path, content) ==
    [p \in (DOMAIN files) \cup {path} |-> IF p = path THEN content ELSE files[p]]

RECURSIVE PutAll(_, _)
PutAll(files, writes) ==
    IF writes = <<>> THEN files
    ELSE PutAll(Put(files, Head(writes)[1], Head(writes)[2]), Tail(writes))

NoType == "undefined"


---------------------------------------------------------------------------
(* Names, and the string functions the code applies to them                *)

ProjectNames == {"publishedApi", "PublishedApi", "orders"}

\* s.charAt(0).toUpperCase() + s.slice(1)
UpperFirst(s) ==
    CASE s = "publishedApi" -> "PublishedApi"
      [] s = "orders" -> "Orders"
      [] s = "getTopping" -> "GetTopping"
      [] s = "searchToppings" -> "SearchToppings"
      [] s = "constructor" -> "Constructor"
      [] s = "list" -> "List"
      [] s = "checklist" -> "Checklist"
      [] OTHER -> s

\* typeName.toLowerCase()
LowerCase(s) ==
    CASE s = "Topping" -> "topping"
      [] s = "SearchReq" -> "searchreq"
      [] OTHER -> s

\* pairs <<a, b>> of distinct endpoint names where the text a ends with the text b
SuffixPairs == {<<"checklist", "list">>}

EndsWith(a, b) == a = b \/ <<a, b>> \in SuffixPairs

---------------------------------------------------------------------------
(* The declaration module and the source tree around it                    *)

\* one property of the `endpoints` object literal
Prop(name, path, method, variant, action, indexName) ==
    [name |-> name, path |-> path, method |-> method, variant |-> variant,
     action |-> action, indexName |-> indexName]

\* one `name: ApiEndpoint<"METHOD", Input, Output, ...>` annotation; shape is
\* "inline" when the method literal follows `ApiEndpoint<` on the same line
Annot(name, method, input, output, shape) ==
    [name |-> name, method |-> method, input |-> input, output |-> output,
     shape |-> shape]

\* a file of the source tree: its name <<prefix, base, suffix>> (".ts" implied,
\* ts says whether the name ends in .ts) and the type names T for which its
\* text contains `interface T` or `type T`
SrcFile(prefix, base, suffix, ts, mentions) ==
    [name |-> <<prefix, base, suffix>>, ts |-> ts, mentions |-> mentions]

SrcDir(exists, files) == [exists |-> exists, files |-> files]

GetTopping == Prop("getTopping", "toppings/{toppingName}", "GET", "compute", "", "")
SearchToppings == Prop("searchToppings", "toppings", "POST", "compute", "", "")
StoreGetIndexed == Prop("getTopping", "toppings/{toppingName}", "GET", "store", "GetItem", "gsi1")
StoreQuery == Prop("searchToppings", "toppings", "POST", "store", "Query", "gsi1")
CtorProp == Prop("constructor", "build", "POST", "compute", "", "")

GetToppingType == Annot("getTopping", "GET", "never", "Topping", "inline")
SearchToppingsType == Annot("searchToppings", "POST", "SearchReq", "Topping", "inline")
SearchToppingsSplit == Annot("searchToppings", "POST", "SearchReq", "Topping", "split")
CtorType == Annot("constructor", "POST", "SearchReq", "Topping", "inline")

\* search roots in the order copyInterfaceFiles lists them (a prefix of the list)
TreeByName ==
    <<SrcDir(TRUE, <<SrcFile("", "internal", "", TRUE, {})>>),
      SrcDir(TRUE, <<SrcFile("", "Topping", "", TRUE, {"Topping"}),
                     SrcFile("", "SearchReq", "", TRUE, {"SearchReq"})>>)>>

TreeByScan ==
    <<SrcDir(TRUE, <<SrcFile("", "internal", "", TRUE, {}),
                     SrcFile("", "models", "", TRUE, {"Topping", "SearchReq"})>>),
      SrcDir(FALSE, <<>>)>>

TreeMissing ==
    <<SrcDir(TRUE, <<SrcFile("", "internal", "", TRUE, {}),
                     SrcFile("", "notes", "", FALSE, {"Topping"})>>),
      SrcDir(TRUE, <<SrcFile("I", "SearchReq", "", TRUE, {"SearchReq"})>>)>>

Module(readable, binding, defType, props, annots, roots, hasCommon) ==
    [readable |-> readable, binding |-> binding, defType |-> defType,
     props |-> props, annots |-> annots, roots |-> roots, hasCommon |-> hasCommon]

\* the declaration modules the runs are given
Modules ==
    { Module(TRUE, TRUE, TRUE, <<GetTopping, SearchToppings>>,
             <<GetToppingType, SearchToppingsType>>, TreeByName, FALSE),
      Module(TRUE, TRUE, TRUE, <<GetTopping, SearchToppings>>,
             <<GetToppingType, SearchToppingsSplit>>, TreeByScan, TRUE),
      Module(TRUE, TRUE, TRUE, <<StoreGetIndexed, StoreQuery>>,
             <<GetToppingType, SearchToppingsType>>, TreeMissing, FALSE),
      Module(TRUE, TRUE, TRUE, <<CtorProp, GetTopping>>,
             <<CtorType, GetToppingType>>, TreeByName, FALSE),
      Module(TRUE, FALSE, TRUE, <<GetTopping, SearchToppings>>,
             <<GetToppingType, SearchToppingsType>>, TreeByName, FALSE),
      Module(TRUE, TRUE, FALSE, <<>>, <<>>, TreeByName, FALSE),
      Module(TRUE, FALSE, FALSE, <<GetTopping>>, <<>>, TreeMissing, FALSE),
      Module(FALSE, TRUE, TRUE, <<GetTopping>>, <<GetToppingType>>, TreeByName, FALSE) }

---------------------------------------------------------------------------
(* Endpoint Loader: bin/import-endpoints.ts                                *)

\* the annotations the pattern `<endpointName>: ApiEndpoint<"M", In,` matches,
\* in text order: the pattern is not anchored on the left
MatchingAnnots(annots, endpointName) ==
    SelectSeq(annots, LAMBDA a : EndsWith(a.name, endpointName) /\ a.shape = "inline")

extractInputType(annots, endpointName) ==
    LET ms == MatchingAnnots(annots, endpointName)
    IN  IF ms # <<>> /\ Head(ms).input # "never" THEN Head(ms).input ELSE NoType

extractOutputType(annots, endpointName) ==
    LET ms == MatchingAnnots(annots, endpointName)
    IN  IF ms # <<>> THEN Head(ms).output ELSE NoType

\* the record the loader builds: only path, method, input and output are read
\* from the declaration, so the record has neither entry nor store fields
Loaded(name, path, method, input, output) ==
    [name |-> name, path |-> path, method |-> method, input |-> input,
     output |-> output, variant |-> "none", action |-> "", indexName |-> "",
     table |-> ""]

\* the structural pass over the `endpoints` object literal
StructuralPass(m) ==
    IF m.binding
    THEN [i \in DOMAIN m.props |->
            Loaded(m.props[i].name, m.props[i].path, m.props[i].method,
                   extractInputType(m.annots, m.props[i].name),
                   extractOutputType(m.annots, m.props[i].name))]
    ELSE <<>>

\* the `name: { ... }` blocks the pattern `<name>:\s*\{` finds, in text order
BlocksFor(props, name) == SelectSeq(props, LAMBDA p : EndsWith(p.name, name))

extractEndpointsManually(m) ==
    IF ~m.defType THEN <<>>
    ELSE LET typed == SelectSeq(m.annots, LAMBDA a :
                         a.shape = "inline" /\ BlocksFor(m.props, a.name) # <<>>)
         IN  [i \in DOMAIN typed |->
                Loaded(typed[i].name, Head(BlocksFor(m.props, typed[i].name)).path,
                       typed[i].method,
                       IF typed[i].input # "never" THEN typed[i].input ELSE NoType,
                       IF typed[i].output # "never" THEN typed[i].output ELSE NoType)]

\* a loader that swallows the read error and reports no endpoints
importEndpoints_swallow(m) ==
    IF ~m.readable THEN [threw |-> FALSE, records |-> <<>>]
    ELSE IF StructuralPass(m) # <<>>
         THEN [threw |-> FALSE, records |-> StructuralPass(m)]
         ELSE [threw |-> FALSE, records |-> extractEndpointsManually(m)]

\* a loader that prefers what the textual extraction finds
importEndpoints_textualFirst(m) ==
    IF ~m.readable THEN [threw |-> TRUE, records |-> <<>>]
    ELSE IF extractEndpointsManually(m) # <<>>
         THEN [threw |-> FALSE, records |-> extractEndpointsManually(m)]
         ELSE [threw |-> FALSE, records |-> StructuralPass(m)]

\* importEndpoints: throws when the source file cannot be found, otherwise the
\* structural records, or the textual ones when the structural pass found none
importEndpoints(m) ==
    IF ~m.readable THEN [threw |-> TRUE, records |-> <<>>]
    ELSE IF StructuralPass(m) # <<>>
         THEN [threw |-> FALSE, records |-> StructuralPass(m)]
         ELSE [threw |-> FALSE, records |-> extractEndpointsManually(m)]

---------------------------------------------------------------------------
(* Interface Resolver: lib/utils/interfaceUtils.ts                         *)

\* the file names tried for a type, in order
fileVariants(typeName) ==
    << <<"", typeName, "">>, <<"", LowerCase(typeName), "">>,
       <<"", typeName, "Interface">>, <<"I", typeName, "">>,
       <<"", typeName, "Type">> >>

NotFound == [found |-> FALSE, dir |-> 0, name |-> <<"", "", "">>]

\* the file of root d found under a name variant, else by scan, else none
InRoot(typeName, roots, d, byNameOnly) ==
    LET names == {roots[d].files[k].name : k \in DOMAIN roots[d].files}
        byName == SelectSeq(fileVariants(typeName), LAMBDA v : v \in names)
        byScan == SelectSeq(roots[d].files, LAMBDA f : f.ts /\ typeName \in f.mentions)
    IN  IF ~roots[d].exists THEN NotFound
        ELSE IF byName # <<>> THEN [found |-> TRUE, dir |-> d, name |-> Head(byName)]
        ELSE IF byScan # <<>> /\ ~byNameOnly
             THEN [found |-> TRUE, dir |-> d, name |-> Head(byScan).name]
             ELSE NotFound

\* a resolver in two passes over the roots from i on: the name variants in
\* every root, and a scan of the roots only when no name matched anywhere
FindFrom_namesFirst(typeName, roots, i) ==
    LET named == {d \in i..Len(roots) : InRoot(typeName, roots, d, TRUE).found}
        any == {d \in i..Len(roots) : InRoot(typeName, roots, d, FALSE).found}
        Least(S) == CHOOSE d \in S : \A e \in S : d <= e
    IN  IF named # {} THEN InRoot(typeName, roots, Least(named), TRUE)
        ELSE IF any # {} THEN InRoot(typeName, roots, Least(any), FALSE)
        ELSE NotFound

\* findAndAddInterfaceFile from root i on: in each existing root, first the
\* file name variants, then a scan of that root's .ts files, then the next root
RECURSIVE FindFrom(_, _, _)
FindFrom(typeName, roots, i) ==
    IF i > Len(roots) THEN NotFound
    ELSE IF ~roots[i].exists THEN FindFrom(typeName, roots, i + 1)
    ELSE LET names == {roots[i].files[k].name : k \in DOMAIN roots[i].files}
             byName == SelectSeq(fileVariants(typeName), LAMBDA v : v \in names)
             byScan == SelectSeq(roots[i].files,
                                 LAMBDA f : f.ts /\ typeName \in f.mentions)
         IN  IF byName # <<>>
             THEN [found |-> TRUE, dir |-> i, name |-> Head(byName)]
             ELSE IF byScan # <<>>
                  THEN [found |-> TRUE, dir |-> i, name |-> Head(byScan).name]
                  ELSE FindFrom(typeName, roots, i + 1)

findAndAddInterfaceFile(typeName, roots) == FindFrom(typeName, roots, 1)

\* whether a record's output / input names a type that is looked up
NamedOutput(e) == e.output # NoType /\ e.output # "any" /\ e.output # "void"
NamedInput(e) == e.input # NoType /\ e.input # "never" /\ e.input # "any"

\* the type names copyInterfaceFiles looks up, in order: per endpoint the
\* output, then the input
RECURSIVE LookedUp(_)
LookedUp(records) ==
    IF records = <<>> THEN <<>>
    ELSE (IF NamedOutput(Head(records)) THEN <<Head(records).output>> ELSE <<>>)
         \o (IF NamedInput(Head(records)) THEN <<Head(records).input>> ELSE <<>>)
         \o LookedUp(Tail(records))

\* a copied file: the bytes of source file `name` of root `dir`
Copied(hit) == [kind |-> "interface", dir |-> hit.dir, name |-> hit.name]

InterfacePath(name) == <<"interfaces">> \o name

\* the writes of copyInterfaceFiles: every located file goes to
\* interfaces/<its own base name>, then common.ts when the module has one
copyInterfaceFiles(records, m) ==
    LET types == LookedUp(records)
        hits == [i \in DOMAIN types |-> findAndAddInterfaceFile(types[i], m.roots)]
        found == SelectSeq(hits, LAMBDA h : h.found)
    IN  [i \in DOMAIN found |-> <<InterfacePath(found[i].name), Copied(found[i])>>]
        \o (IF m.hasCommon THEN << <<<<"common.ts">>, [kind |-> "common"]>> >> ELSE <<>>)

\* the types for which the resolver printed "Could not find interface file"
Unresolved(records, m) ==
    {t \in Range(LookedUp(records)) : ~findAndAddInterfaceFile(t, m.roots).found}

---------------------------------------------------------------------------
(* Client Generator: generateClientCode                                    *)

\* the `import { T } from './interfaces/T'` lines: a set in insertion order
RECURSIVE Dedup(_)
Dedup(s) ==
    IF s = <<>> THEN <<>>
    ELSE LET d == Dedup(SubSeq(s, 1, Len(s) - 1))
         IN  IF s[Len(s)] \in Range(d) THEN d ELSE Append(d, s[Len(s)])

typeImports(records) == Dedup(LookedUp(records))

outputTypeOf(e) == IF e.output # NoType /\ e.output # "any" THEN e.output ELSE "any"

hasInputType(e) == e.input # NoType /\ e.input # "never"

\* a generator that emits the body lines for every method
ClientMethod_bodyAlways(e) ==
    [name |-> e.name,
     paramType |-> <<UpperFirst(e.name), "Params">>,
     returnType |-> <<"Promise<", outputTypeOf(e), ">">>,
     path |-> e.path, method |-> e.method,
     sendsBody |-> TRUE]

\* the text `async <name>(params: <Name>Params): Promise<<Out>> { ... }`
ClientMethod(e) ==
    [name |-> e.name,
     paramType |-> <<UpperFirst(e.name), "Params">>,
     returnType |-> <<"Promise<", outputTypeOf(e), ">">>,
     path |-> e.path, method |-> e.method,
     sendsBody |-> (e.method # "GET" /\ hasInputType(e))]

\* the class constructor `constructor(projectName: string = '<projectName>')`
ClientConstructor(projectName) ==
    [name |-> "constructor", paramType |-> <<"string">>, returnType |-> <<>>,
     path |-> "", method |-> "", sendsBody |-> FALSE]

\* the `<Name>Params` interface of an endpoint: body for a non-GET method with
\* an input type, query for a GET method with an input type
ParamsInterface(e) ==
    [name |-> <<UpperFirst(e.name), "Params">>,
     body |-> IF e.method # "GET" /\ hasInputType(e) THEN e.input ELSE NoType,
     query |-> IF e.method = "GET" /\ hasInputType(e) THEN e.input ELSE NoType]

generateClientCode(records, projectName) ==
    [kind |-> "client",
     class |-> <<UpperFirst(projectName), "ApiClient">>,
     default |-> projectName,
     imports |-> typeImports(records),
     params |-> [i \in DOMAIN records |-> ParamsInterface(records[i])],
     members |-> <<ClientConstructor(projectName)>>
                 \o [i \in DOMAIN records |-> ClientMethod(records[i])]]

---------------------------------------------------------------------------
(* Manifest, README and the small fixed artifacts                          *)

generateClientPackageJson(projectName) ==
    [kind |-> "package", description |-> projectName]

EndpointDoc(e) ==
    [name |-> e.name, path |-> e.path, method |-> e.method,
     input |-> e.input, output |-> e.output]

generateClientReadme(projectName, records, hasMocks) ==
    [kind |-> "readme", project |-> projectName, hasMocks |-> hasMocks,
     endpoints |-> [i \in DOMAIN records |-> EndpointDoc(records[i])]]

ClientExportLine == "export * from './apiClient';"
MockExportLine == "export * from './apiClientMock';"

\* the index.ts generateApiClient writes
FreshIndex == [kind |-> "index", lines |-> <<ClientExportLine>>]

GitIgnore == [kind |-> "gitignore"]
JestSetup == [kind |-> "jest-setup"]

\* endpointEntries.json: the `entry` of every record that has one; the loader
\* never reads `entry`, so loaded records contribute nothing
EndpointEntries(records) ==
    [kind |-> "entries",
     names |-> {records[i].name : i \in {k \in DOMAIN records :
                                           "entry" \in DOMAIN records[k]}}]

---------------------------------------------------------------------------
(* Mock Generator: parseApiClientFile, generateApiClientMocks              *)

\* the syntax kind the TypeScript parser gives a class member: a member
\* written with the name `constructor` is a constructor declaration
IsMethodDeclaration(member) == member.name # "constructor"

\* returnType.startsWith("Promise<") && returnType.endsWith(">") ?
\*   returnType.substring(8, returnType.length - 1) : returnType
StripPromise(text) ==
    IF Len(text) >= 2 /\ Head(text) = "Promise<" /\ text[Len(text)] = ">"
    THEN SubSeq(text, 2, Len(text) - 1)
    ELSE text

MockEntry(member) ==
    [name |-> member.name, paramType |-> member.paramType,
     returnType |-> StripPromise(member.returnType)]

\* the methods found inside the class named <titleCaseProjectName>ApiClient
parseApiClientFile(client, titleCaseProjectName) ==
    LET methods == SelectSeq(client.members, LAMBDA m :
                      /\ IsMethodDeclaration(m)
                      /\ client.class = <<titleCaseProjectName, "ApiClient">>
                      /\ m.name # "constructor")
    IN  [i \in DOMAIN methods |-> MockEntry(methods[i])]

\* an amendment that does not look at the index before appending
IncludesMock_never(lines) == FALSE

\* indexContent.includes("apiClientMock"), line by line
MentionsMock(line) == line = MockExportLine

IncludesMock(lines) == \E i \in DOMAIN lines : MentionsMock(lines[i])

\* an amendment that assigns the export line instead of appending it
appendMockExport_assign(lines) == <<MockExportLine>>

\* indexContent += `export * from './apiClientMock';\n`
appendMockExport(lines) == Append(lines, MockExportLine)

generateMockClientCode(endpoints, imports, titleCaseProjectName) ==
    [kind |-> "mock", title |-> titleCaseProjectName,
     entries |-> endpoints, imports |-> imports]

\* generateApiClientMocks on a directory: [threw, files].  fault names the file
\* system call that fails: "parse" the read of apiClient.ts, "index" the read
\* of index.ts, "no" none
generateApiClientMocks(files, projectName, fault) ==
    IF fault = "parse" \/ <<"apiClient.ts">> \notin DOMAIN files
    THEN [threw |-> TRUE, files |-> files]
    ELSE LET title == UpperFirst(projectName)
             endpoints == parseApiClientFile(files[<<"apiClient.ts">>], title)
             mock == generateMockClientCode(endpoints,
                        files[<<"apiClient.ts">>].imports, title)
             withMock == Put(files, <<"apiClientMock.ts">>, mock)
         IN  IF endpoints = <<>>
             THEN [threw |-> FALSE, files |-> files]
             ELSE IF fault = "index" \/ <<"index.ts">> \notin DOMAIN files
                  THEN [threw |-> TRUE, files |-> withMock]
                  ELSE IF ~IncludesMock(withMock[<<"index.ts">>].lines)
                       THEN [threw |-> FALSE,
                             files |-> Put(withMock, <<"index.ts">>,
                                 [kind |-> "index",
                                  lines |-> appendMockExport(
                                                withMock[<<"index.ts">>].lines)])]
                       ELSE [threw |-> FALSE, files |-> withMock]

---------------------------------------------------------------------------
(* Contract Test Generator: one assertion artifact per endpoint            *)

generateApiContractTests(records, projectName) ==
    [i \in DOMAIN records |->
        << <<"contract", records[i].name>>,
           [kind |-> "contract-test", endpoint |-> EndpointDoc(records[i]),
            project |-> projectName] >>]

---------------------------------------------------------------------------
(* Template Generator: lib/utils/generators/vtlGenerator.ts                *)

\* a generator that does not skip any record
isStoreBacked_any(e) == TRUE

\* 'dynamoGenerator' in endpoint && endpoint.dynamoGenerator
isStoreBacked(e) == e.variant = "store"

\* a lookup that finds a declaration file for every named type
InterfaceExists_always(files, typeName) == typeName # NoType

InterfaceExists(files, typeName) ==
    typeName # NoType /\ InterfacePath(<<"", typeName, "">>) \in DOMAIN files

\* generateRequestTemplateFromType: the basic template without a resolved
\* input type, otherwise the template of the HTTP method
requestTemplate(e, files) ==
    [kind |-> "vtl-request",
     form |-> IF InterfaceExists(files, e.input) THEN e.method ELSE "basic",
     method |-> e.method,
     table |-> IF InterfaceExists(files, e.input) THEN e.table ELSE ""]

\* generateResponseTemplateFromType: basic without an output type, built from
\* the declaration when it is found, the pass-through body otherwise
responseTemplate(e, files) ==
    [kind |-> "vtl-response",
     form |-> IF e.output = NoType THEN "basic"
              ELSE IF InterfaceExists(files, e.output) THEN "typed" ELSE "default",
     type |-> IF InterfaceExists(files, e.output) THEN e.output ELSE NoType]

\* the writes of generateVtlTemplates, in order
RECURSIVE generateVtlTemplates(_, _)
generateVtlTemplates(records, files) ==
    IF records = <<>> THEN <<>>
    ELSE (IF isStoreBacked(Head(records))
          THEN << <<<<"vtl", Head(records).name, "request">>,
                    requestTemplate(Head(records), files)>>,
                  <<<<"vtl", Head(records).name, "response">>,
                    responseTemplate(Head(records), files)>> >>
          ELSE <<>>)
         \o generateVtlTemplates(Tail(records), files)

---------------------------------------------------------------------------
(* The command line run: main and generateApiClient                        *)

Runs == {1, 2}
OutDirs == {"out1", "out2"}
OptionalPhases == {"vtl", "mocks", "tests"}

Absent == [exists |-> FALSE, files |-> NoFiles]

\* files an earlier run may have left behind
StaleFiles ==
    { << <<"apiClientMock.ts">>,
         [kind |-> "mock", title |-> "PublishedApi", entries |-> <<>>, imports |-> <<>>] >>,
      << <<"index.ts">>,
         [kind |-> "index", lines |-> <<ClientExportLine, MockExportLine>>] >>,
      << <<"vtl", "oldEndpoint", "request">>,
         [kind |-> "vtl-request", form |-> "basic", method |-> "GET", table |-> ""] >> }

FilesOf(S) == [p \in {w[1] : w \in S} |-> (CHOOSE w \in S : w[1] = p)[2]]

\* the output directory as a run may find it
PriorDirs ==
    {Absent} \cup {[exists |-> TRUE, files |-> FilesOf(S)] :
                      S \in {T \in SUBSET StaleFiles : Cardinality(T) <= MaxPrior}}

\* an invocation: the arguments main reads, the declaration module, and which
\* file system calls of the run fail (fsFail: a mandatory write; the others:
\* inside the optional phase of that name)
Invocation(project, module, outDir, mocks, tests, vtl, fsFail, vtlFail, mocksFail, testsFail) ==
    [project |-> project, module |-> module, outDir |-> outDir,
     mocks |-> mocks, tests |-> tests, vtl |-> vtl, fsFail |-> fsFail,
     vtlFail |-> vtlFail, mocksFail |-> mocksFail, testsFail |-> testsFail]

Invocations ==
    {Invocation("publishedApi", m, "out1", mocks, tests, vtl, fsFail, vtlFail, mocksFail, testsFail) :
        m \in Modules, mocks \in BOOLEAN, tests \in BOOLEAN, vtl \in BOOLEAN,
        fsFail \in {"none", "client", "gitignore"}, vtlFail \in BOOLEAN,
        mocksFail \in {"no", "parse", "index"}, testsFail \in BOOLEAN}

\* a failure is injected only into a phase the flags let run
Feasible(i) ==
    /\ i.vtlFail => i.vtl
    /\ i.mocksFail # "no" => i.mocks
    /\ i.testsFail => (i.tests /\ i.mocks)

\* every run writes into the directory of the first
Dir_shared(r) == inv[1].outDir

Dir(r) == inv[r].outDir
Files(r) == disk[Dir(r)].files

\* `if (!endpointsDef)`: importEndpoints returns an object, and every object,
\* the empty one included, is truthy
Truthy(records) == TRUE

\* a clean step that only creates the directory
cleanDirectory_keep(d) == [exists |-> TRUE, files |-> d.files]

\* a clean step that removes the files of the directory but not its
\* subdirectories
cleanDirectory_shallow(d) ==
    [exists |-> TRUE,
     files |-> [p \in {q \in DOMAIN d.files : Len(q) > 1} |-> d.files[p]]]

\* fs.existsSync(outputDir) && fs.rmSync(outputDir, {recursive: true}), then
\* ensureDirectoryExists(outputDir)
cleanDirectory(d) ==
    LET removed == IF d.exists THEN Absent ELSE d
    IN  [exists |-> TRUE, files |-> removed.files]

\* the process ends: main's catch prints and calls process.exit(1), or
\* generateApiClient returns and the process exits 0
Exit(r, code, dirAtExit) ==
    /\ pc' = [pc EXCEPT ![r] = "done"]
    /\ exitCode' = [exitCode EXCEPT ![r] = code]
    /\ result' = [result EXCEPT ![r] = dirAtExit]

Fatal(r, dirAtExit) ==
    /\ Exit(r, 1, dirAtExit)
    /\ logged' = [logged EXCEPT ![r] = @ \cup {"Error generating API client"}]

Goto(r, next) ==
    /\ pc' = [pc EXCEPT ![r] = next]
    /\ UNCHANGED <<exitCode, result>>

Paths(writes) == {writes[i][1] : i \in DOMAIN writes}

\* one mandatory step of generateApiClient: fs.writeFileSync of each write in
\* order, or the error of the first one
WriteStep(r, here, next, writes, warnings) ==
    /\ pc[r] = here
    /\ IF inv[r].fsFail = here
       THEN /\ Fatal(r, disk[Dir(r)])
            /\ UNCHANGED <<disk, written>>
       ELSE /\ disk' = [disk EXCEPT ![Dir(r)].files = PutAll(@, writes)]
            /\ written' = [written EXCEPT ![r] = @ \cup Paths(writes)]
            /\ logged' = [logged EXCEPT ![r] = @ \cup warnings]
            /\ Goto(r, next)
    /\ UNCHANGED <<inv, endpointsDef, before, phaseStart, ran, toolCalls,
                   indexAfter, vtlInput, call, outcome>>

\* importEndpoints(endpointsPath) and the check of its result
Load(r) ==
    /\ pc[r] = "load"
    /\ before' = [before EXCEPT ![r] = disk[Dir(r)]]
    /\ LET res == importEndpoints(inv[r].module)
       IN  IF res.threw \/ ~Truthy(res.records)
           THEN /\ Fatal(r, disk[Dir(r)])
                /\ UNCHANGED endpointsDef
           ELSE /\ endpointsDef' = [endpointsDef EXCEPT ![r] = res.records]
                /\ Goto(r, "clear")
                /\ UNCHANGED logged
    /\ UNCHANGED <<inv, written, disk, phaseStart, ran, toolCalls, indexAfter, vtlInput, call, outcome>>

\* the output directory is removed with everything in it and created again
CleanOutput(r) ==
    /\ pc[r] = "clear"
    /\ disk' = [disk EXCEPT ![Dir(r)] = cleanDirectory(@)]
    /\ Goto(r, "client")
    /\ UNCHANGED <<inv, endpointsDef, logged, written, before, phaseStart, ran,
                   toolCalls, indexAfter, vtlInput, call, outcome>>

WriteClient(r) ==
    WriteStep(r, "client", "interfaces",
              << <<<<"apiClient.ts">>, generateClientCode(endpointsDef[r], inv[r].project)>> >>,
              {})

\* a resolver for which a type it cannot find ends the run
CopyInterfaces_fatal(r) ==
    IF Unresolved(endpointsDef[r], inv[r].module) # {}
    THEN /\ pc[r] = "interfaces"
         /\ Fatal(r, disk[Dir(r)])
         /\ UNCHANGED <<inv, endpointsDef, written, disk, before, phaseStart, ran,
                        toolCalls, indexAfter, vtlInput, call, outcome>>
    ELSE WriteStep(r, "interfaces", "index",
                   copyInterfaceFiles(endpointsDef[r], inv[r].module), {})

CopyInterfaces(r) ==
    WriteStep(r, "interfaces", "index",
              copyInterfaceFiles(endpointsDef[r], inv[r].module),
              IF Unresolved(endpointsDef[r], inv[r].module) # {}
              THEN {"Could not find interface file"} ELSE {})

WriteIndex(r) ==
    WriteStep(r, "index", "package", << <<<<"index.ts">>, FreshIndex>> >>, {})

WritePackage(r) ==
    WriteStep(r, "package", "readme",
              << <<<<"package.json">>, generateClientPackageJson(inv[r].project)>> >>, {})

\* a run that goes from the README to the ignore file, past the templates
WriteReadme_pastTemplates(r) ==
    WriteStep(r, "readme", "gitignore",
              << <<<<"README.md">>,
                   generateClientReadme(inv[r].project, endpointsDef[r], inv[r].mocks)>> >>,
              {})

WriteReadme(r) ==
    WriteStep(r, "readme", "vtl",
              << <<<<"README.md">>,
                   generateClientReadme(inv[r].project, endpointsDef[r], inv[r].mocks)>> >>,
              {})

WriteGitignore(r) ==
    WriteStep(r, "gitignore", "entries", << <<<<".gitignore">>, GitIgnore>> >>, {})

WriteEntries(r) ==
    WriteStep(r, "entries", "jestsetup",
              << <<<<"endpointEntries.json">>, EndpointEntries(endpointsDef[r])>> >>, {})

WriteJestSetup(r) ==
    WriteStep(r, "jestsetup", "mocks", << <<<<"jest.setup.ts">>, JestSetup>> >>, {})

\* where generateApiClient goes after a phase: its return ends the process
\* with status 0
Proceed(r, next, dirNow) ==
    IF next = "done" THEN Exit(r, 0, dirNow) ELSE Goto(r, next)

\* one optional phase: skipped when its flags are off; otherwise run inside
\* try/catch when `guarded`, so that an error is printed and the run goes on
OptionalPhase(r, here, next, enabled, threw, filesAfter, tag, guarded) ==
    /\ pc[r] = here
    /\ IF ~enabled
       THEN /\ Proceed(r, next, disk[Dir(r)])
            /\ UNCHANGED <<disk, written, logged, phaseStart, ran>>
       ELSE /\ ran' = [ran EXCEPT ![r] = @ \cup {here}]
            /\ phaseStart' = [phaseStart EXCEPT ![r][here] = Files(r)]
            /\ disk' = [disk EXCEPT ![Dir(r)].files = filesAfter]
            /\ written' = [written EXCEPT ![r] = @ \cup
                             {p \in DOMAIN filesAfter :
                                 p \notin DOMAIN Files(r) \/ filesAfter[p] # Files(r)[p]}]
            /\ IF threw /\ ~guarded
               THEN Fatal(r, [exists |-> TRUE, files |-> filesAfter])
               ELSE /\ logged' = [logged EXCEPT ![r] =
                                     IF threw THEN @ \cup {tag} ELSE @]
                    /\ Proceed(r, next, [exists |-> TRUE, files |-> filesAfter])
    /\ UNCHANGED <<inv, endpointsDef, before, toolCalls, indexAfter, vtlInput, call, outcome>>

VtlPhase(r, guarded) ==
    OptionalPhase(r, "vtl", "gitignore", inv[r].vtl, inv[r].vtlFail,
                  IF inv[r].vtlFail THEN Files(r)
                  ELSE PutAll(Files(r), generateVtlTemplates(endpointsDef[r], Files(r))),
                  "Error generating VTL templates", guarded)

MocksPhase(r, guarded) ==
    LET res == generateApiClientMocks(Files(r), inv[r].project, inv[r].mocksFail)
    IN  OptionalPhase(r, "mocks", "tests", inv[r].mocks, res.threw, res.files,
                      "Error generating API client mocks", guarded)

\* a contract test phase that looks at its own flag only
TestsPhase_ownFlag(r, guarded) ==
    OptionalPhase(r, "tests", "done", inv[r].tests, inv[r].testsFail,
                  IF inv[r].testsFail THEN Files(r)
                  ELSE PutAll(Files(r),
                              generateApiContractTests(endpointsDef[r], inv[r].project)),
                  "Error generating API contract tests", guarded)

TestsPhase(r, guarded) ==
    OptionalPhase(r, "tests", "done", inv[r].tests /\ inv[r].mocks, inv[r].testsFail,
                  IF inv[r].testsFail THEN Files(r)
                  ELSE PutAll(Files(r),
                              generateApiContractTests(endpointsDef[r], inv[r].project)),
                  "Error generating API contract tests", guarded)

\* the phases without their try/catch
VtlUncaught(r) == VtlPhase(r, FALSE)

MocksUncaught(r) == MocksPhase(r, FALSE)

Vtl(r) == VtlPhase(r, TRUE)

Mocks(r) == MocksPhase(r, TRUE)

Tests(r) == TestsPhase(r, TRUE)

Step(r) ==
    \/ Load(r)
    \/ CleanOutput(r)
    \/ WriteClient(r)
    \/ CopyInterfaces(r)
    \/ WriteIndex(r)
    \/ WritePackage(r)
    \/ WriteReadme(r)
    \/ Vtl(r)
    \/ WriteGitignore(r)
    \/ WriteEntries(r)
    \/ WriteJestSetup(r)
    \/ Mocks(r)
    \/ Tests(r)

NoVtlInput == <<>>

\* no operation is invoked on its own
NoCall == [op |-> "none"]

Start(invs, disks, pcs, records) ==
    /\ inv = invs
    /\ disk = disks
    /\ pc = pcs
    /\ vtlInput = records
    /\ endpointsDef = [r \in Runs |-> <<>>]
    /\ exitCode = [r \in Runs |-> -1]
    /\ logged = [r \in Runs |-> {}]
    /\ written = [r \in Runs |-> {}]
    /\ before = [r \in Runs |-> Absent]
    /\ result = [r \in Runs |-> Absent]
    /\ phaseStart = [r \in Runs |-> [ph \in OptionalPhases |-> NoFiles]]
    /\ ran = [r \in Runs |-> {}]
    /\ toolCalls = 0
    /\ indexAfter = <<>>
    /\ call = NoCall
    /\ outcome = NoCall

\* one run of the command over an output directory
Init ==
    \E i \in {j \in Invocations : Feasible(j)}, prior \in PriorDirs :
        Start([r \in Runs |-> i],
              [d \in OutDirs |-> IF d = i.outDir THEN prior ELSE Absent],
              [r \in Runs |-> IF r = 1 THEN "load" ELSE "idle"],
              NoVtlInput)

Next == \E r \in Runs : Step(r)

Spec == Init /\ [][Next]_vars

---------------------------------------------------------------------------
(* Two runs of the command on the same input, one after the other          *)

FaultFree(i) ==
    i.fsFail = "none" /\ ~i.vtlFail /\ i.mocksFail = "no" /\ ~i.testsFail

\* the second run gets the arguments and the source tree of the first; it
\* writes either over the first run's output or into another directory, which
\* it finds in a state of its own
InitTwice ==
    \E i \in {j \in Invocations : FaultFree(j)}, d2 \in OutDirs,
       prior1 \in PriorDirs, prior2 \in PriorDirs :
        /\ d2 = "out1" => prior2 = Absent
        /\ Start([r \in Runs |-> IF r = 1 THEN i ELSE [i EXCEPT !.outDir = d2]],
                 [d \in OutDirs |-> IF d = "out1" THEN prior1 ELSE prior2],
                 [r \in Runs |-> "load"],
                 NoVtlInput)

NextTwice == \E r \in Runs : (r = 1 \/ pc[1] = "done") /\ Step(r)

SpecTwice == InitTwice /\ [][NextTwice]_vars

---------------------------------------------------------------------------
(* The mock generator invoked on its own on a generated client directory   *)

\* the directory the mock tool is pointed at: the client and the index a run
\* of the command wrote for project clientProject
GeneratedDir(m, clientProject) ==
    [exists |-> TRUE,
     files |-> PutAll(NoFiles,
        << <<<<"apiClient.ts">>,
             generateClientCode(importEndpoints(m).records, clientProject)>>,
           <<<<"index.ts">>, FreshIndex>> >>)]

InitMock ==
    \E m \in {x \in Modules : x.readable}, clientProject \in ProjectNames,
       toolProject \in ProjectNames :
        Start([r \in Runs |->
                  Invocation(toolProject, m, "out1", TRUE, FALSE, FALSE,
                             "none", FALSE, "no", FALSE)],
              [d \in OutDirs |-> IF d = "out1" THEN GeneratedDir(m, clientProject)
                                 ELSE Absent],
              [r \in Runs |-> IF r = 1 THEN "mock-tool" ELSE "idle"],
              NoVtlInput)

\* generateApiClientMocks({apiClientPath, projectName, outputPath}) with both
\* paths the same directory
InvokeMockTool ==
    /\ pc[1] = "mock-tool"
    /\ toolCalls < MaxInvocations
    /\ LET res == generateApiClientMocks(Files(1), inv[1].project, "no")
       IN  /\ disk' = [disk EXCEPT ![Dir(1)].files = res.files]
           /\ indexAfter' = Append(indexAfter, res.files[<<"index.ts">>].lines)
    /\ toolCalls' = toolCalls + 1
    /\ UNCHANGED <<inv, pc, endpointsDef, exitCode, logged, written, before, result,
                   phaseStart, ran, vtlInput, call, outcome>>

NextMock == InvokeMockTool

SpecMock == InitMock /\ [][NextMock]_vars

---------------------------------------------------------------------------
(* generateVtlTemplates called directly on endpoint records                *)

VtlNames == {"getTopping", "searchToppings", "list"}

\* an Endpoint value as the constructs declare it: store-backed with a
\* dynamoGenerator, or compute-backed with an entry
EndpointRecord(name, variant, out) ==
    IF variant = "store"
    THEN [name |-> name, path |-> "toppings",
          method |-> IF name = "searchToppings" THEN "POST" ELSE "GET",
          input |-> IF name = "searchToppings" THEN "SearchReq" ELSE NoType,
          output |-> out, variant |-> "store",
          action |-> IF name = "getTopping" THEN "GetItem" ELSE "Query",
          indexName |-> "", table |-> "toppings"]
    ELSE [name |-> name, path |-> "toppings",
          method |-> IF name = "searchToppings" THEN "POST" ELSE "GET",
          input |-> IF name = "searchToppings" THEN "SearchReq" ELSE NoType,
          output |-> out, variant |-> "compute",
          action |-> "", indexName |-> "", table |-> "", entry |-> "handler.ts"]

EndpointRecords ==
    {EndpointRecord(n, v, o) :
        n \in VtlNames, v \in {"store", "compute"}, o \in {NoType, "Topping"}}

\* the values of an object: at most MaxRecords records with distinct names
RecordSeqs ==
    {s \in UNION {[1..n -> EndpointRecords] : n \in 0..MaxRecords} :
        \A i, j \in DOMAIN s : i # j => s[i].name # s[j].name}

\* output directories with none, one or both of the interface files
VtlDirs ==
    { NoFiles,
      PutAll(NoFiles, << <<InterfacePath(<<"", "Topping", "">>),
                           [kind |-> "interface", dir |-> 1, name |-> <<"", "Topping", "">>]>> >>),
      PutAll(NoFiles, << <<InterfacePath(<<"", "Topping", "">>),
                           [kind |-> "interface", dir |-> 1, name |-> <<"", "Topping", "">>]>>,
                         <<InterfacePath(<<"", "SearchReq", "">>),
                           [kind |-> "interface", dir |-> 1, name |-> <<"", "SearchReq", "">>]>> >>) }

InitVtl ==
    \E records \in RecordSeqs, files \in VtlDirs, m \in {x \in Modules : ~x.readable} :
        Start([r \in Runs |->
                  Invocation("publishedApi", m, "out1", FALSE, FALSE, TRUE,
                             "none", FALSE, "no", FALSE)],
              [d \in OutDirs |-> IF d = "out1" THEN [exists |-> TRUE, files |-> files]
                                 ELSE Absent],
              [r \in Runs |-> IF r = 1 THEN "vtl-call" ELSE "idle"],
              records)

\* generateVtlTemplates(endpoints, outputDir)
CallVtl ==
    /\ pc[1] = "vtl-call"
    /\ before' = [before EXCEPT ![1] = disk[Dir(1)]]
    /\ disk' = [disk EXCEPT ![Dir(1)].files =
                   PutAll(@, generateVtlTemplates(vtlInput, Files(1)))]
    /\ written' = [written EXCEPT ![1] = Paths(generateVtlTemplates(vtlInput, Files(1)))]
    /\ pc' = [pc EXCEPT ![1] = "vtl-returned"]
    /\ UNCHANGED <<inv, endpointsDef, exitCode, logged, result, phaseStart, ran,
                   toolCalls, indexAfter, vtlInput, call, outcome>>

NextVtl == CallVtl

SpecVtl == InitVtl /\ [][NextVtl]_vars

---------------------------------------------------------------------------
(* Properties of the run                                                   *)

Done(r) == pc[r] = "done"

\* the declaration module could be read and no mandatory write failed
MandatoryOk(r) == inv[r].module.readable /\ inv[r].fsFail = "none"

\* the loader found no endpoint in either pass
ZeroEndpoints(m) == m.readable /\ importEndpoints(m).records = <<>>

TagOf(ph) ==
    CASE ph = "vtl" -> "Error generating VTL templates"
      [] ph = "mocks" -> "Error generating API client mocks"
      [] ph = "tests" -> "Error generating API contract tests"

\* the optional phases of run r that threw
FailedPhases(r) == {ph \in ran[r] : TagOf(ph) \in logged[r]}

\* C1: a run whose declaration module loads but yields zero endpoints from
\* both passes ends as a fatal load failure: exit code 1, the output directory
\* neither cleared nor written.
C1_ZeroEndpointsFatal ==
    \A r \in Runs :
        (Done(r) /\ ZeroEndpoints(inv[r].module)) =>
            /\ exitCode[r] = 1
            /\ written[r] = {}
            /\ result[r] = before[r]

\* C1: a finished run over a module with zero endpoints that exited 0 after
\* clearing a non-empty output directory and writing the client.
C1_ZeroEndpointsRunCompletes ==
    \E r \in Runs :
        /\ Done(r) /\ ZeroEndpoints(inv[r].module)
        /\ exitCode[r] = 0
        /\ before[r].files # NoFiles
        /\ <<"apiClient.ts">> \in written[r]

\* C2: when the declaration module cannot be read the process exits with
\* code 1 and the output directory is exactly as the run found it: nothing
\* deleted, nothing written.
C2_LoadFailureLeavesOutput ==
    \A r \in Runs :
        (pc[r] # "load" /\ pc[r] # "idle" /\ ~inv[r].module.readable) =>
            /\ Done(r)
            /\ exitCode[r] = 1
            /\ written[r] = {}
            /\ result[r] = before[r]
            /\ disk[Dir(r)] = before[r]

\* C2: a run over an unreadable module has ended, and the directory it was
\* pointed at held files of an earlier run.
C2_LoadFailureWitness ==
    \E r \in Runs :
        /\ Done(r) /\ ~inv[r].module.readable
        /\ before[r].exists /\ before[r].files # NoFiles
        /\ exitCode[r] = 1

\* C3: when loading and the mandatory phases succeed the process exits with
\* code 0 whatever subset of the optional phases throws, and every optional
\* phase that threw was logged at its boundary.
C3_OptionalFailuresExitZero ==
    \A r \in Runs :
        (Done(r) /\ MandatoryOk(r)) =>
            /\ exitCode[r] = 0
            /\ inv[r].vtlFail => TagOf("vtl") \in logged[r]
            /\ inv[r].mocksFail = "parse" => TagOf("mocks") \in logged[r]
            /\ inv[r].testsFail => TagOf("tests") \in logged[r]
            /\ "Error generating API client" \notin logged[r]

\* C3: a run in which all three optional phases threw has exited with code 0.
C3_AllOptionalPhasesThrew ==
    \E r \in Runs :
        /\ Done(r) /\ MandatoryOk(r)
        /\ FailedPhases(r) = OptionalPhases
        /\ exitCode[r] = 0

\* the optional phases the flags of run r let run
Enabled(r, ph) ==
    CASE ph = "vtl" -> inv[r].vtl
      [] ph = "mocks" -> inv[r].mocks
      [] ph = "tests" -> inv[r].tests /\ inv[r].mocks

\* the optional phases that come after ph in generateApiClient
After(ph) ==
    CASE ph = "vtl" -> {"mocks", "tests"}
      [] ph = "mocks" -> {"tests"}
      [] ph = "tests" -> {}

\* the optional phases after a failed one still ran
LaterPhasesRan(r) ==
    (exitCode[r] = 0) =>
        \A ph \in FailedPhases(r) :
            \A later \in After(ph) : Enabled(r, later) => later \in ran[r]

\* file p of the directory is at the end of the run what it was when phase
\* ph began
Kept(r, ph, p) ==
    /\ p \in DOMAIN result[r].files
    /\ result[r].files[p] = phaseStart[r][ph][p]

\* the index is what it was when phase ph began, or that followed by the mock
\* export line
IndexKeptOrAmended(r, ph) ==
    /\ <<"index.ts">> \in DOMAIN result[r].files
    /\ \/ result[r].files[<<"index.ts">>] = phaseStart[r][ph][<<"index.ts">>]
       \/ /\ "mocks" \in ran[r] \ FailedPhases(r)
          /\ "mocks" \in After(ph)
          /\ result[r].files[<<"index.ts">>].lines =
                Append(phaseStart[r][ph][<<"index.ts">>].lines, MockExportLine)

\* C4 as stated: when an optional phase fails, every artifact present just
\* before that phase started is still present and unchanged when the run
\* ends, and the optional phases after the failed one still run.
C4_ArtifactsUnchangedAtEnd ==
    \A r \in Runs :
        Done(r) =>
            /\ LaterPhasesRan(r)
            /\ \A ph \in FailedPhases(r) :
                  \A p \in DOMAIN phaseStart[r][ph] : Kept(r, ph, p)

\* C4 amended: when an optional phase fails, every artifact present just
\* before that phase started is still present when the run ends, and unchanged
\* except for index.ts, to which a later successful Mock Generator phase may
\* have appended the mock export line; the optional phases after the failed
\* one still run.
C4_ArtifactsKeptIndexAmended ==
    \A r \in Runs :
        Done(r) =>
            /\ LaterPhasesRan(r)
            /\ \A ph \in FailedPhases(r) :
                  \A p \in DOMAIN phaseStart[r][ph] :
                      IF p = <<"index.ts">> THEN IndexKeptOrAmended(r, ph)
                      ELSE Kept(r, ph, p)

\* C4: the Template Generator phase failed with the client and the index
\* already written, and the Mock Generator phase that ran after it amended the
\* index.
C4_FailureThenIndexAmended ==
    \E r \in Runs :
        /\ Done(r) /\ exitCode[r] = 0
        /\ "vtl" \in FailedPhases(r)
        /\ <<"apiClient.ts">> \in DOMAIN phaseStart[r]["vtl"]
        /\ "mocks" \in ran[r] \ FailedPhases(r)
        /\ result[r].files[<<"index.ts">>] # phaseStart[r]["vtl"][<<"index.ts">>]

\* the declaration has a store-backed GetItem endpoint with an index name
HasIndexedGetItem(m) ==
    \E i \in DOMAIN m.props :
        /\ m.props[i].variant = "store"
        /\ m.props[i].action = "GetItem"
        /\ m.props[i].indexName # ""

C6_OutputIsFresh ==
    \A r \in Runs :
        /\ (pc[r] \notin {"idle", "load", "clear"} /\ inv[r].module.readable) =>
              DOMAIN disk[Dir(r)].files \subseteq written[r]
        /\ (Done(r) /\ exitCode[r] = 0) =>
              DOMAIN result[r].files \subseteq written[r]

\* C6: a successful run found files of an earlier run in the directory, one of
\* them at a path this run does not write, and that file is gone.
C6_StaleFileRemoved ==
    \E r \in Runs :
        /\ Done(r) /\ exitCode[r] = 0
        /\ \E p \in DOMAIN before[r].files :
              p \notin written[r] /\ p \notin DOMAIN result[r].files

---------------------------------------------------------------------------
(* Properties of the mock generator                                        *)

\* number of export lines for the mock module in an index
ExportCount(lines) == Cardinality({i \in DOMAIN lines : lines[i] = MockExportLine})

\* what the mock tool parses out of the client of the directory
ParsedByTool ==
    parseApiClientFile(Files(1)[<<"apiClient.ts">>], UpperFirst(inv[1].project))

IndexNow == Files(1)[<<"index.ts">>].lines

\* C8 as stated: after any number n >= 1 of invocations on the same directory
\* the index holds exactly one export line for the mock module, and the index
\* after the second invocation equals the index after the first.
C8_ExactlyOneExportLine ==
    toolCalls >= 1 =>
        /\ ExportCount(IndexNow) = 1
        /\ Len(indexAfter) >= 2 => indexAfter[2] = indexAfter[1]

\* C8 amended: after any number n >= 1 of invocations on the same directory
\* the index holds exactly one export line for the mock module when the
\* generator finds at least one method in the client class named after the
\* project, and none when it finds no method (it then returns before touching
\* the index); in both cases the index after every later invocation equals the
\* index after the first.
C8_OneExportLineWhenMethodsFound ==
    toolCalls >= 1 =>
        /\ ExportCount(IndexNow) = (IF ParsedByTool # <<>> THEN 1 ELSE 0)
        /\ \A n \in DOMAIN indexAfter : indexAfter[n] = indexAfter[1]
        /\ indexAfter[Len(indexAfter)] = IndexNow

\* C8: the tool has been invoked at least twice on a client with methods, and
\* the index holds the export line it appended.
C8_InvokedTwice ==
    /\ toolCalls >= 2
    /\ ParsedByTool # <<>>
    /\ <<"apiClientMock.ts">> \in DOMAIN Files(1)
    /\ MockExportLine \in Range(IndexNow)

\* the records the client of the directory was generated from
Declared == importEndpoints(inv[1].module).records

\* the tool is given the project name the client was generated for
SameProject == Files(1)[<<"apiClient.ts">>].class = <<UpperFirst(inv[1].project), "ApiClient">>

\* every extracted method has the parameter type of the client method of its
\* name and that method's return type without the wrapping Promise<...>
TypesMatch ==
    \A i \in DOMAIN ParsedByTool :
        \E k \in DOMAIN Declared :
            /\ Declared[k].name = ParsedByTool[i].name
            /\ ParsedByTool[i].paramType = <<UpperFirst(Declared[k].name), "Params">>
            /\ ParsedByTool[i].returnType = <<outputTypeOf(Declared[k])>>

\* C9: the method names the Mock Generator extracts from the client class
\* <ProjectName>ApiClient are exactly the endpoint names of the declaration,
\* each with the client method's parameter type and its return type without
\* the wrapping Promise<...>.
C9_MockNamesEqualEndpointNames ==
    (toolCalls >= 1 /\ SameProject) =>
        /\ {ParsedByTool[i].name : i \in DOMAIN ParsedByTool}
              = {Declared[k].name : k \in DOMAIN Declared}
        /\ TypesMatch

\* C9: the tool has run on a client generated for its project from a
\* declaration that has an endpoint named constructor and another endpoint,
\* and the names it extracted are not the names declared.
C9_ConstructorEndpointSkipped ==
    /\ toolCalls >= 1 /\ SameProject
    /\ "constructor" \in {Declared[k].name : k \in DOMAIN Declared}
    /\ ParsedByTool # <<>>
    /\ <<"apiClientMock.ts">> \in DOMAIN Files(1)
    /\ {ParsedByTool[i].name : i \in DOMAIN ParsedByTool}
          # {Declared[k].name : k \in DOMAIN Declared}

---------------------------------------------------------------------------
(* Properties of the template generator                                    *)

StoreNames == {vtlInput[i].name : i \in {k \in DOMAIN vtlInput : vtlInput[k].variant = "store"}}

---------------------------------------------------------------------------
(* C11: templates of an endpoint whose type has no declaration file        *)

Declared11(typeName) ==
    InterfacePath(<<"", typeName, "">>) \in DOMAIN before[1].files

---------------------------------------------------------------------------
(* Template Generator for endpoints with flat store properties             *)
(* (tableName, action, pk, sk): the generator vtlGenerator.test.ts calls   *)

\* property names are split where the gsi prefix would end: <<"gsi", "1pk">>
\* is gsi1pk, <<"pk", "g">> is pkg, <<"Gsi", "1pk">> is Gsi1pk
PropertySignature(name, type) == [name |-> name, type |-> type]

\* exact name pk or sk, or a case-sensitive gsi prefix
isKeyAttribute(name) == name = <<"pk">> \/ name = <<"sk">> \/ name[1] = "gsi"

\* the kind whose conditional directive a property gets
classify(type) ==
    CASE type = "number" -> "Number"
      [] type = "boolean" -> "Boolean"
      [] OTHER -> "String"

\* a generator that knows the String directive only
conditionalClause_string(p) ==
    [clause |-> "conditional", kind |-> "String", name |-> p.name]

\* #set($key="<name>") $outputConditional<Kind>
conditionalClause(p) ==
    [clause |-> "conditional", kind |-> classify(p.type), name |-> p.name]

\* "<name>": "$item.<name>.S"
unconditionalClause(p) ==
    [clause |-> "unconditional", kind |-> "String", name |-> p.name]

RECURSIVE SelectProps(_, _)
SelectProps(props, keys) ==
    IF props = <<>> THEN <<>>
    ELSE (IF isKeyAttribute(Head(props).name) = keys THEN <<Head(props)>> ELSE <<>>)
         \o SelectProps(Tail(props), keys)

\* every property gets its clause at its place in the declaration
fieldClauses_inPlace(props) ==
    [i \in DOMAIN props |->
        IF isKeyAttribute(props[i].name) THEN unconditionalClause(props[i])
        ELSE conditionalClause(props[i])]

\* the conditional directives of the non-key properties in source order, then
\* the key attributes in declared order
fieldClauses(props) ==
    [i \in DOMAIN SelectProps(props, FALSE) |->
        conditionalClause(SelectProps(props, FALSE)[i])]
    \o [i \in DOMAIN SelectProps(props, TRUE) |->
        unconditionalClause(SelectProps(props, TRUE)[i])]

\* "Key":{"pk":{"S":"<pk>"}} without the sort key
keyObject_pkOnly(e) == [clause |-> "Key", pk |-> e.pk, sk |-> ""]

\* "Key":{"pk":{"S":"<pk>"},"sk":{"S":"<sk>"}}, the sort key only when declared
keyObject(e) == [clause |-> "Key", pk |-> e.pk, sk |-> e.sk]

\* the pagination directives of a Query: the limit read from the query string
\* with the configured default, then the cursor: the query string is tested
\* first, the request body only under POST or PUT
cursorBranches_bodyFirst ==
    << [source |-> "body", methods |-> {"POST", "PUT"}],
       [source |-> "querystring", methods |-> {"GET", "POST", "PUT", "DELETE"}] >>

cursorBranches ==
    << [source |-> "querystring", methods |-> {"GET", "POST", "PUT", "DELETE"}],
       [source |-> "body", methods |-> {"POST", "PUT"}] >>

\* a GetItem with an index name is rejected
invalidEndpoint(e) == e.action = "GetItem" /\ e.indexName # ""

buildRequestTemplate(e) ==
    IF e.action = "GetItem"
    THEN [kind |-> "vtl-request", form |-> "GetItem",
          clauses |-> << [clause |-> "TableName", value |-> e.table], keyObject(e) >>]
    ELSE [kind |-> "vtl-request", form |-> "Query",
          clauses |->
             << [clause |-> "Limit", source |-> "querystring", default |-> e.defaultLimit],
                [clause |-> "ExclusiveStartKey", branches |-> cursorBranches] >>
             \o (IF e.indexName # "" THEN << [clause |-> "IndexName", value |-> e.indexName] >>
                 ELSE <<>>)
             \o << [clause |-> "TableName", value |-> e.table] >>]

\* the directive an API gateway evaluates for a request: the first branch of
\* the cursor clause whose token is present and whose method guard holds
RECURSIVE cursorUsed(_, _)
cursorUsed(branches, req) ==
    IF branches = <<>> THEN "none"
    ELSE IF req[Head(branches).source] /\ req.method \in Head(branches).methods
         THEN Head(branches).source
         ELSE cursorUsed(Tail(branches), req)

buildResponseTemplate(e, files) ==
    IF InterfaceExists(files, e.output)
    THEN [kind |-> "vtl-response",
          form |-> IF e.action = "GetItem" THEN "Item" ELSE "Items",
          clauses |-> fieldClauses(files[InterfacePath(<<"", e.output, "">>)].props)]
    ELSE [kind |-> "vtl-response", form |-> "fallback",
          clauses |-> << [clause |-> "each-key", kind |-> "String", name |-> <<"$key">>],
                         unconditionalClause(PropertySignature(<<"pk">>, "string")),
                         unconditionalClause(PropertySignature(<<"sk">>, "string")) >>]

\* the writes of generateVtlTemplates for one endpoint with store properties
generateTemplates(e, files) ==
    IF invalidEndpoint(e) THEN [threw |-> TRUE, writes |-> <<>>]
    ELSE [threw |-> FALSE,
          writes |-> << <<<<"vtl", e.name, "request">>, buildRequestTemplate(e)>>,
                        <<<<"vtl", e.name, "response">>, buildResponseTemplate(e, files)>> >>]

\* the endpoints of the generator's tests and their neighbours
StoreEndpoints ==
    {[name |-> IF action = "GetItem" THEN "getItem" ELSE "createItem",
      method |-> method, action |-> action, table |-> table,
      pk |-> pk, sk |-> sk, indexName |-> indexName, defaultLimit |-> defaultLimit,
      output |-> output] :
        method \in {"GET", "POST", "PUT"}, action \in {"GetItem", "Query"},
        table \in {"TestTable", "Orders"},
        pk \in {"SOME#$method.request.path.id", "USER"}, sk \in {"ITEM", ""},
        indexName \in {"", "gsi1"}, defaultLimit \in {"", "25"},
        output \in {"TestResponse", "MissingInterface"}}

\* declarations of TestResponse: the fixture's, one with key attributes among
\* the other properties and names that only look like keys, one of keys only
Declarations ==
    { << PropertySignature(<<"name">>, "string"), PropertySignature(<<"count">>, "number"),
         PropertySignature(<<"isActive">>, "boolean"), PropertySignature(<<"tags">>, "string[]"),
         PropertySignature(<<"created">>, "string"),
         PropertySignature(<<"pk">>, "string"), PropertySignature(<<"sk">>, "string") >>,
      << PropertySignature(<<"sk">>, "string"), PropertySignature(<<"name">>, "string"),
         PropertySignature(<<"gsi", "1pk">>, "string"), PropertySignature(<<"count">>, "number"),
         PropertySignature(<<"pk">>, "string"), PropertySignature(<<"Gsi", "1pk">>, "boolean"),
         PropertySignature(<<"pk", "g">>, "number") >>,
      << PropertySignature(<<"pk">>, "string"), PropertySignature(<<"sk">>, "string") >>,
      << PropertySignature(<<"count">>, "number") >> }

InitTemplates ==
    \E e \in StoreEndpoints, props \in Declarations,
       m \in {x \in Modules : ~x.readable} :
        /\ Start([r \in Runs |->
                    Invocation("publishedApi", m, "out1", FALSE, FALSE, TRUE,
                               "none", FALSE, "no", FALSE)],
                 [d \in OutDirs |->
                    IF d = "out1"
                    THEN [exists |-> TRUE,
                          files |-> Put(NoFiles, InterfacePath(<<"", "TestResponse", "">>),
                                        [kind |-> "interface", dir |-> 1,
                                         name |-> <<"", "TestResponse", "">>,
                                         props |-> props])]
                    ELSE Absent],
                 [r \in Runs |-> IF r = 1 THEN "templates-call" ELSE "idle"],
                 <<e>>)

\* generateVtlTemplates(endpoints, outputDir) on one endpoint
CallTemplates ==
    /\ pc[1] = "templates-call"
    /\ before' = [before EXCEPT ![1] = disk[Dir(1)]]
    /\ LET res == generateTemplates(vtlInput[1], Files(1))
       IN  /\ disk' = [disk EXCEPT ![Dir(1)].files = PutAll(@, res.writes)]
           /\ written' = [written EXCEPT ![1] = Paths(res.writes)]
           /\ pc' = [pc EXCEPT ![1] = IF res.threw THEN "templates-threw"
                                      ELSE "templates-returned"]
    /\ UNCHANGED <<inv, endpointsDef, exitCode, logged, result, phaseStart, ran,
                   toolCalls, indexAfter, vtlInput, call, outcome>>

NextTemplates == CallTemplates

SpecTemplates == InitTemplates /\ [][NextTemplates]_vars

---------------------------------------------------------------------------
(* C12-C15: the templates of endpoints with flat store properties          *)

TemplatesReturned == pc[1] = "templates-returned"

Endpoint12 == vtlInput[1]

ResponseWritten == Files(1)[<<"vtl", Endpoint12.name, "response">>]

RequestWritten == Files(1)[<<"vtl", Endpoint12.name, "request">>]

\* the output type was resolved, and these are its properties in source order
Resolved12 == InterfacePath(<<"", Endpoint12.output, "">>) \in DOMAIN before[1].files

Props12 == before[1].files[InterfacePath(<<"", Endpoint12.output, "">>)].props

ClausesNamed(name) ==
    {i \in DOMAIN ResponseWritten.clauses : ResponseWritten.clauses[i].name = name}

KeyName13(n) == n \in {<<"pk">>, <<"sk">>} \/ n[1] = "gsi"

PositionOf(n) == CHOOSE k \in DOMAIN Props12 : Props12[k].name = n

GatewayRequests ==
    [method : {"GET", "POST", "PUT", "DELETE"}, querystring : BOOLEAN, body : BOOLEAN]

ClausesOf(kind) ==
    {i \in DOMAIN RequestWritten.clauses : RequestWritten.clauses[i].clause = kind}

---------------------------------------------------------------------------
(* A call of a method of the generated client                              *)

\* texts are sequences of tokens; a placeholder {id} is the three tokens
\* "{", "id", "}" and an identifier is a token matching [a-zA-Z0-9_]+
Identifiers == {"id", "name", "items", "copies", "42", "a", "b"}

\* the paths of the endpoints called: one placeholder, the same placeholder
\* twice, two placeholders, none
CallPaths ==
    { <<"/", "items", "/", "{", "id", "}">>,
      <<"/", "items", "/", "{", "id", "}", "/", "copies", "/", "{", "id", "}">>,
      <<"/", "{", "name", "}", "/", "items", "/", "{", "id", "}">>,
      <<"/", "items">> }

\* String(value) of the values a caller passes for a path parameter
ParamValues == { <<"42">>, <<"a", "/", "b">>, <<"{", "id", "}">>, <<"{", "name", "}">> }

\* what iamRequest resolves to: [type, truthy, keys, proto], or its rejection
Response(type, truthy, keys, proto) ==
    [type |-> type, truthy |-> truthy, keys |-> keys, proto |-> proto]

Responses ==
    { Response("object", TRUE, 0, "Object.prototype"),
      Response("object", TRUE, 2, "Object.prototype"),
      Response("object", TRUE, 0, "Array.prototype"),
      Response("object", TRUE, 3, "Array.prototype"),
      Response("object", TRUE, 0, "null"),
      Response("string", TRUE, 0, "String.prototype"),
      Response("number", FALSE, 0, "Number.prototype"),
      Response("object", FALSE, 0, "none"),
      Response("rejected", FALSE, 0, "none") }

\* encodeURIComponent: reserved characters become percent escapes
encodeURIComponent(text) ==
    [i \in DOMAIN text |->
        CASE text[i] = "/" -> "%2F"
          [] text[i] = "{" -> "%7B"
          [] text[i] = "}" -> "%7D"
          [] OTHER -> text[i]]

\* path.match(/{([a-zA-Z0-9_]+)}/g) with the braces removed: the names of the
\* placeholders in order, repeated as often as they occur
RECURSIVE curlyFrom(_, _)
curlyFrom(text, i) ==
    IF i > Len(text) THEN <<>>
    ELSE IF i + 2 <= Len(text) /\ text[i] = "{" /\ text[i + 1] \in Identifiers
                /\ text[i + 2] = "}"
         THEN <<text[i + 1]>> \o curlyFrom(text, i + 3)
    ELSE curlyFrom(text, i + 1)

\* the names of the placeholders, each once
curlyPathParams_distinct(text) ==
    LET all == curlyFrom(text, 1)
    IN  SelectSeq([i \in DOMAIN all |->
                      IF \E j \in 1..(i - 1) : all[j] = all[i] THEN "" ELSE all[i]],
                  LAMBDA n : n # "")

curlyPathParams(text) == curlyFrom(text, 1)

\* finalPath.replace("{name}", value): the first occurrence only
replace(text, name, value) ==
    LET hits == {i \in DOMAIN text :
                    i + 2 <= Len(text) /\ text[i] = "{" /\ text[i + 1] = name
                    /\ text[i + 2] = "}"}
    IN  IF hits = {} THEN text
        ELSE LET i == CHOOSE h \in hits : \A g \in hits : h <= g
             IN  SubSeq(text, 1, i - 1) \o value \o SubSeq(text, i + 3, Len(text))

\* a check that lets every parameter pass
isUndefined_never(params, name) == FALSE

\* params[paramName] === undefined
isUndefined(params, name) == name \notin DOMAIN params.path

\* the loop over curlyPathParams: the error of the first missing parameter, or
\* the path with one replacement per match
RECURSIVE substitute(_, _, _)
substitute(finalPath, names, params) ==
    IF names = <<>> THEN [threw |-> FALSE, missing |-> "", path |-> finalPath]
    ELSE IF isUndefined(params, Head(names))
         THEN [threw |-> TRUE, missing |-> Head(names), path |-> finalPath]
         ELSE substitute(
                replace(finalPath, Head(names),
                        encodeURIComponent(IF Head(names) \in DOMAIN params.path
                                           THEN params.path[Head(names)]
                                           ELSE <<"undefined">>)),
                Tail(names), params)

\* an emptiness test that does not look at the prototype
isEmptyObject_anyPrototype(response) ==
    response.truthy /\ response.type = "object" /\ response.keys = 0

\* response && typeof response === 'object' && no keys && plain prototype
isEmptyObject(response) ==
    /\ response.truthy /\ response.type = "object" /\ response.keys = 0
    /\ response.proto = "Object.prototype"

\* interface BaseParams, which every <Name>Params extends
BaseParams == [headers |-> "Record<string, string>", query |-> "Record<string, string>"]

\* the body of a generated method m run on params, with iamRequest resolving
\* to response
invokeMethod(m, params, response) ==
    LET sub == substitute(m.path, curlyPathParams(m.path), params)
        request ==
            [path |-> sub.path, method |-> m.method,
             query |-> IF params.query # "undefined" THEN params.query
                       ELSE IF m.method = "GET" THEN "{}" ELSE "undefined",
             body |-> IF m.sendsBody THEN <<"JSON.stringify", params.body>> ELSE <<>>]
        Thrown(error, requests) ==
            [threw |-> TRUE, error |-> error, requests |-> requests,
             returned |-> Response("none", FALSE, 0, "none")]
    IN  IF sub.threw
        THEN Thrown(<<"Missing required path parameter: ", sub.missing>>, <<>>)
        ELSE IF response.type = "rejected"
        THEN Thrown(<<"iamRequest rejected">>, <<request>>)
        ELSE IF isEmptyObject(response)
        THEN Thrown(<<"Received empty response from iamRequest">>, <<request>>)
        ELSE [threw |-> FALSE, error |-> <<>>, requests |-> <<request>>,
              returned |-> response]

\* the endpoint records a client is generated from, and the calls made on it
CalledEndpoints ==
    {[name |-> "getTopping", path |-> path, method |-> method, input |-> input,
      output |-> "Topping", variant |-> "none", action |-> "", indexName |-> "",
      table |-> ""] :
        path \in CallPaths, method \in {"GET", "POST"},
        input \in {NoType, "never", "SearchReq"}}

CallParams ==
    {[path |-> values, query |-> query, body |-> "payload"] :
        values \in UNION {[S -> ParamValues] : S \in SUBSET {"id", "name"}},
        query \in {"undefined", "{q: 1}"}}

InitCall ==
    \E e \in CalledEndpoints, params \in CallParams, response \in Responses,
       m \in {x \in Modules : ~x.readable} :
        /\ inv = [r \in Runs |->
                    Invocation("publishedApi", m, "out1", FALSE, FALSE, FALSE,
                               "none", FALSE, "no", FALSE)]
        /\ disk = [d \in OutDirs |->
                     IF d = "out1"
                     THEN [exists |-> TRUE,
                           files |-> Put(NoFiles, <<"apiClient.ts">>,
                                         generateClientCode(<<e>>, "publishedApi"))]
                     ELSE Absent]
        /\ pc = [r \in Runs |-> IF r = 1 THEN "client-call" ELSE "idle"]
        /\ vtlInput = <<e>>
        /\ endpointsDef = [r \in Runs |-> <<>>]
        /\ exitCode = [r \in Runs |-> -1]
        /\ logged = [r \in Runs |-> {}]
        /\ written = [r \in Runs |-> {}]
        /\ before = [r \in Runs |-> Absent]
        /\ result = [r \in Runs |-> Absent]
        /\ phaseStart = [r \in Runs |-> [ph \in OptionalPhases |-> NoFiles]]
        /\ ran = [r \in Runs |-> {}]
        /\ toolCalls = 0
        /\ indexAfter = <<>>
        /\ call = [op |-> "client-call", params |-> params, response |-> response]
        /\ outcome = NoCall

\* client.<name>(params) on the client found in the output directory
CallMethod ==
    /\ pc[1] = "client-call"
    /\ LET m == Files(1)[<<"apiClient.ts">>].members[2]
           res == invokeMethod(m, call.params, call.response)
       IN  /\ outcome' = res
           /\ pc' = [pc EXCEPT ![1] = IF res.threw THEN "client-threw"
                                      ELSE "client-returned"]
    /\ UNCHANGED <<inv, endpointsDef, exitCode, logged, written, disk, before, result,
                   phaseStart, ran, toolCalls, indexAfter, vtlInput, call>>

NextCall == CallMethod

SpecCall == InitCall /\ [][NextCall]_vars

---------------------------------------------------------------------------
(* C16-C19: calls of the generated client                                  *)

CallEnded == pc[1] \in {"client-threw", "client-returned"}

CalledEndpoint == vtlInput[1]

\* the names between braces in the path of the endpoint called
PlaceholderNames(text) ==
    {text[i + 1] : i \in {k \in DOMAIN text :
                            k + 2 <= Len(text) /\ text[k] = "{" /\ text[k + 2] = "}"}}

MissingNames == PlaceholderNames(CalledEndpoint.path) \ DOMAIN call.params.path

\* C16: a call that leaves a {name} segment of the endpoint's path without a
\* value ends in an error naming such a parameter and sends no HTTP request;
\* the client itself was generated, with a method for the endpoint.
C16_MissingPathParameterThrows ==
    /\ pc[1] \in {"client-call", "client-threw", "client-returned"} =>
          Files(1)[<<"apiClient.ts">>].members[2].name = CalledEndpoint.name
    /\ (CallEnded /\ MissingNames # {}) =>
          /\ pc[1] = "client-threw"
          /\ outcome.threw
          /\ \E n \in MissingNames :
                outcome.error = <<"Missing required path parameter: ", n>>
          /\ outcome.requests = <<>>

\* a call that supplied the second of two path parameters only
C16_FirstParameterMissing ==
    /\ pc[1] = "client-threw"
    /\ MissingNames = {"name"}
    /\ DOMAIN call.params.path = {"id"}
    /\ outcome.error = <<"Missing required path parameter: ", "name">>

AllSupplied == CallEnded /\ MissingNames = {}

SentPath == outcome.requests[1].path

\* the path with every placeholder replaced by the escaped value of its
\* parameter, read off the declared path from left to right
RECURSIVE Finalized(_, _)
Finalized(text, i) ==
    IF i > Len(text) THEN <<>>
    ELSE IF i + 2 <= Len(text) /\ text[i] = "{" /\ text[i + 2] = "}"
                /\ text[i + 1] \in DOMAIN call.params.path
         THEN [k \in DOMAIN call.params.path[text[i + 1]] |->
                  LET ch == call.params.path[text[i + 1]][k]
                  IN  IF ch = "/" THEN "%2F" ELSE IF ch = "{" THEN "%7B"
                      ELSE IF ch = "}" THEN "%7D" ELSE ch]
              \o Finalized(text, i + 3)
         ELSE <<text[i]>> \o Finalized(text, i + 1)

\* C17: when a call supplies every path parameter, the path of the request
\* sent holds no {name} placeholder any more: every {name} segment, also one
\* whose name occurs twice, is replaced by the percent-encoded value of the
\* parameter of that name.
C17_NoPlaceholderRemains ==
    AllSupplied =>
        /\ Len(outcome.requests) = 1
        /\ PlaceholderNames(SentPath) = {}
        /\ SentPath = Finalized(CalledEndpoint.path, 1)

\* a path with the same placeholder twice was called with a value that itself
\* reads like a placeholder
C17_RepeatedNameBraceValue ==
    /\ AllSupplied
    /\ CalledEndpoint.path =
          <<"/", "items", "/", "{", "id", "}", "/", "copies", "/", "{", "id", "}">>
    /\ call.params.path["id"] = <<"{", "id", "}">>
    /\ SentPath = <<"/", "items", "/", "%7B", "id", "%7D", "/", "copies", "/",
                    "%7B", "id", "%7D">>

EmptyPlainObject == Response("object", TRUE, 0, "Object.prototype")

\* C18: a call that passes path substitution sends exactly one request; when
\* the response is an empty object with the plain prototype the call ends in
\* an error, and every other response (an object with keys, an array, an empty
\* object of another prototype, a primitive, null) is returned as it came.
C18_OneRequestEmptyObjectRejected ==
    AllSupplied =>
        /\ Len(outcome.requests) = 1
        /\ call.response = EmptyPlainObject =>
              /\ outcome.threw
              /\ outcome.error = <<"Received empty response from iamRequest">>
        /\ (call.response # EmptyPlainObject /\ call.response.type # "rejected") =>
              /\ ~outcome.threw
              /\ pc[1] = "client-returned"
              /\ outcome.returned = call.response

\* an empty array came back and was returned
C18_EmptyArrayReturned ==
    /\ AllSupplied
    /\ call.response = Response("object", TRUE, 0, "Array.prototype")
    /\ pc[1] = "client-returned"
    /\ outcome.returned = call.response

RequestSent == outcome.requests[1]

HasInput19 == CalledEndpoint.input # NoType /\ CalledEndpoint.input # "never"

IsGet19 == CalledEndpoint.method = "GET"

\* the <Name>Params interface written for the endpoint called
ParamsWritten == Files(1)[<<"apiClient.ts">>].params[1]

CarriesBody == RequestSent.body # <<>>

CarriesQuery == RequestSent.query # "undefined"

\* C19 as stated: the call-parameter type and the request carry a body exactly
\* when the method is not GET and an input type exists, and a query exactly
\* when the method is GET and an input type exists; no request carries both,
\* and no request of another method than GET carries a query.
C19_BodyXorQueryByMethod ==
    AllSupplied =>
        /\ ParamsWritten.body # NoType <=> (~IsGet19 /\ HasInput19)
        /\ ParamsWritten.query # NoType <=> (IsGet19 /\ HasInput19)
        /\ CarriesBody <=> (~IsGet19 /\ HasInput19)
        /\ CarriesQuery <=> (IsGet19 /\ HasInput19)
        /\ ~(CarriesBody /\ CarriesQuery)
        /\ ~IsGet19 => ~CarriesQuery

\* C19 amended: the call-parameter type declares a body exactly when the
\* method is not GET and an input type exists, and a query of the input type
\* exactly when the method is GET and an input type exists, next to the
\* optional query every parameter type inherits from BaseParams; the request
\* carries a body exactly when the method is not GET and an input type exists;
\* it carries the caller's query whenever the caller supplies one, whatever
\* the method, and otherwise an empty query under GET and none under any other
\* method.
C19_BodyByMethodQueryByCaller ==
    AllSupplied =>
        /\ ParamsWritten.body # NoType <=> (~IsGet19 /\ HasInput19)
        /\ ParamsWritten.query # NoType <=> (IsGet19 /\ HasInput19)
        /\ "query" \in DOMAIN BaseParams
        /\ CarriesBody <=> (~IsGet19 /\ HasInput19)
        /\ RequestSent.query =
              (IF call.params.query # "undefined" THEN call.params.query
               ELSE IF IsGet19 THEN "{}" ELSE "undefined")

\* a POST endpoint with an input type was called with a query: the request
\* carries the body and the query
C19_PostWithQuerySent ==
    /\ AllSupplied
    /\ ~IsGet19 /\ HasInput19
    /\ call.params.query # "undefined"
    /\ CarriesBody /\ CarriesQuery

---------------------------------------------------------------------------
(* main: the command line before generateApiClient is called               *)

Flags == {"--no-mocks", "--no-tests", "--no-vtl"}

\* process.argv.slice(2): the command word or not, then none to three
\* positional arguments, then option flags
ArgVectors ==
    {prefix \o positional \o flags :
        prefix \in {<<>>, <<"generateInternalApiClient">>},
        positional \in {<<>>, <<"publishedApi">>, <<"publishedApi", "endpoints.ts">>,
                        <<"publishedApi", "endpoints.ts", "out1">>},
        flags \in {<<>>, <<"--no-mocks">>, <<"--no-tests">>, <<"--no-vtl">>,
                   <<"--no-mocks", "--no-tests">>, <<"--no-mocks", "--no-vtl">>,
                   <<"--no-tests", "--no-vtl">>,
                   <<"--no-mocks", "--no-tests", "--no-vtl">>}}

\* the file system at a path given as endpointsPath: the sample declaration at
\* endpoints.ts, no file anywhere else
FileAt(path) ==
    IF path = "endpoints.ts"
    THEN Module(TRUE, TRUE, TRUE, <<GetTopping, SearchToppings>>,
                <<GetToppingType, SearchToppingsType>>, TreeByName, FALSE)
    ELSE Module(FALSE, TRUE, TRUE, <<GetTopping>>, <<GetToppingType>>, TreeByName, FALSE)

\* the directories an argument vector can name as outputDir
MainDirs == OutDirs \cup {"generatedClient"} \cup Flags

\* main up to the call of generateApiClient: the usage exit, or the options
parseArgs(args) ==
    LET offset == IF Len(args) >= 1 /\ args[1] = "generateInternalApiClient" THEN 1 ELSE 0
    IN  IF Len(args) < 2 + offset
        THEN [usage |-> TRUE,
              invocation |-> Invocation("", FileAt(""), "generatedClient", TRUE, TRUE, TRUE,
                                        "none", FALSE, "no", FALSE)]
        ELSE [usage |-> FALSE,
              invocation |->
                 Invocation(args[offset + 1], FileAt(args[offset + 2]),
                            IF Len(args) >= offset + 3 THEN args[offset + 3]
                            ELSE "generatedClient",
                            "--no-mocks" \notin Range(args),
                            "--no-tests" \notin Range(args),
                            "--no-vtl" \notin Range(args),
                            "none", FALSE, "no", FALSE)]

InitMain ==
    \E args \in ArgVectors, prior \in PriorDirs :
        /\ inv = [r \in Runs |-> parseArgs(<<>>).invocation]
        /\ disk = [d \in MainDirs |-> prior]
        /\ pc = [r \in Runs |-> IF r = 1 THEN "main" ELSE "idle"]
        /\ vtlInput = NoVtlInput
        /\ endpointsDef = [r \in Runs |-> <<>>]
        /\ exitCode = [r \in Runs |-> -1]
        /\ logged = [r \in Runs |-> {}]
        /\ written = [r \in Runs |-> {}]
        /\ before = [r \in Runs |-> Absent]
        /\ result = [r \in Runs |-> Absent]
        /\ phaseStart = [r \in Runs |-> [ph \in OptionalPhases |-> NoFiles]]
        /\ ran = [r \in Runs |-> {}]
        /\ toolCalls = 0
        /\ indexAfter = <<>>
        /\ call = [op |-> "main", args |-> args]
        /\ outcome = NoCall

\* the argument check of main
ParseArgs ==
    /\ pc[1] = "main"
    /\ IF parseArgs(call.args).usage
       THEN /\ Exit(1, 1, disk[Dir(1)])
            /\ logged' = [logged EXCEPT ![1] = @ \cup {"Usage"}]
            /\ UNCHANGED inv
       ELSE /\ inv' = [inv EXCEPT ![1] = parseArgs(call.args).invocation]
            /\ Goto(1, "load")
            /\ UNCHANGED logged
    /\ UNCHANGED <<endpointsDef, written, disk, before, phaseStart, ran, toolCalls,
                   indexAfter, vtlInput, call, outcome>>

NextMain == ParseArgs \/ Step(1)

SpecMain == InitMain /\ [][NextMain]_vars

---------------------------------------------------------------------------
(* C20: the argument check                                                 *)

\* the arguments after the command word that are not option flags
Positionals ==
    LET args == call.args
        rest == IF Len(args) >= 1 /\ args[1] = "generateInternalApiClient"
                THEN Tail(args) ELSE args
    IN  SelectSeq(rest, LAMBDA a : a \notin Flags)

\* C20: an invocation with fewer than two positional arguments, option flags
\* not counted, exits with code 1 at the argument check: the loader is never
\* called and nothing is written to the output directory.
C20_TooFewPositionalsUsageExit ==
    (Done(1) /\ Len(Positionals) < 2) =>
        /\ exitCode[1] = 1
        /\ "Usage" \in logged[1]
        /\ "Error generating API client" \notin logged[1]
        /\ written[1] = {}

\* one positional argument and one flag: the flag is taken for the declaration
\* path and handed to the loader
C20_FlagTakenForDeclarationPath ==
    /\ Done(1)
    /\ call.args = <<"publishedApi", "--no-mocks">>
    /\ exitCode[1] = 1
    /\ "Error generating API client" \in logged[1]
    /\ "Usage" \notin logged[1]

---------------------------------------------------------------------------
(* Properties of the resolver within a run                                 *)

\* the run looked up a type that no search root holds under a file name
\* variant or in the text of a .ts file
HasUnresolved(r) ==
    /\ inv[r].module.readable
    /\ Unresolved(importEndpoints(inv[r].module).records, inv[r].module) # {}

\* C21: an unresolved type is not fatal: the resolver only logs a warning
\* for it, and a run whose mandatory writes succeed still writes the client
\* source, the index and the manifest and exits with code 0.
C21_UnresolvedTypeNotFatal ==
    \A r \in Runs :
        (Done(r) /\ MandatoryOk(r) /\ HasUnresolved(r)) =>
            /\ exitCode[r] = 0
            /\ "Could not find interface file" \in logged[r]
            /\ "Error generating API client" \notin logged[r]
            /\ {<<"apiClient.ts">>, <<"index.ts">>, <<"package.json">>}
                   \subseteq (written[r] \cap DOMAIN result[r].files)

\* C21: a run has exited 0 after the resolver found one of its two types
\* (under the I-prefixed file name) and warned about the other.
C21_OneTypeFoundOneMissing ==
    \E r \in Runs :
        /\ Done(r) /\ HasUnresolved(r)
        /\ exitCode[r] = 0
        /\ "Could not find interface file" \in logged[r]
        /\ InterfacePath(<<"I", "SearchReq", "">>) \in DOMAIN result[r].files
        /\ <<"apiClient.ts">> \in DOMAIN result[r].files

---------------------------------------------------------------------------
(* Two concurrent runs of the command                                      *)

\* two processes started together with the same arguments (the optional phases all on or all off) but for the output
\* directory of the second, which is the first's or another one that it finds
\* as the first finds its own
InitRace ==
    \E i \in {j \in Invocations :
                   /\ FaultFree(j)
                   /\ j.module = Module(TRUE, TRUE, TRUE, <<GetTopping, SearchToppings>>,
                                        <<GetToppingType, SearchToppingsType>>,
                                        TreeByName, FALSE)
                   /\ j.mocks = j.tests /\ j.tests = j.vtl},
       d2 \in OutDirs,
       prior \in {p \in PriorDirs : DOMAIN p.files \subseteq {<<"index.ts">>}} :
        Start([r \in Runs |-> IF r = 1 THEN i ELSE [i EXCEPT !.outDir = d2]],
              [d \in OutDirs |-> prior],
              [r \in Runs |-> "load"],
              NoVtlInput)

\* nothing orders the steps of one process against the steps of the other
SpecRace == InitRace /\ [][Next]_vars


DistinctDirs == inv[1].outDir # inv[2].outDir

\* C22: single-writer discipline is not enforced, and it is needed only for
\* a shared directory: of two concurrent runs with distinct output
\* directories, each finds in its directory, from its clear step on, exactly
\* the artifacts it wrote itself, exits with code 0 with all of them in
\* place, and ends with the result the other run ends with; no step of the
\* other run changes that.
C22_DistinctDirsDoNotInterfere ==
    DistinctDirs =>
        /\ \A r \in Runs :
              /\ pc[r] \notin {"load", "clear"} => DOMAIN Files(r) = written[r]
              /\ Done(r) => /\ exitCode[r] = 0
                            /\ result[r] = disk[Dir(r)]
                            /\ written[r] = DOMAIN result[r].files
        /\ (Done(1) /\ Done(2)) => result[1] = result[2]

\* C22: two concurrent runs on one output directory: the first has exited
\* with code 0, and the client source it wrote is not in the tree it left,
\* because the clear step of the second ran after the first's write.
C22_SharedDirClearDeletesWrittenClient ==
    /\ ~DistinctDirs
    /\ Done(1) /\ exitCode[1] = 0
    /\ <<"apiClient.ts">> \in written[1]
    /\ <<"apiClient.ts">> \notin DOMAIN result[1].files
    /\ pc[2] \notin {"load", "clear"}

---------------------------------------------------------------------------
(* Order of the phases of a run                                            *)

\* what holds of the phases whatever the order of the two generators is:
\* nothing is written before the loader has returned, the resolver copies
\* after the client source is written, the Mock Generator finds the client
\* source when it starts, and the Contract Test Generator starts after the
\* generators that run
OrderAroundGenerators(r) ==
    /\ written[r] # {} => (pc[r] # "load" /\ inv[r].module.readable)
    /\ (\E p \in written[r] : p[1] = "interfaces") => <<"apiClient.ts">> \in written[r]
    /\ "mocks" \in ran[r] =>
          /\ <<"apiClient.ts">> \in DOMAIN phaseStart[r]["mocks"]
          /\ <<"index.ts">> \in DOMAIN phaseStart[r]["mocks"]
    /\ "tests" \in ran[r] =>
          /\ "mocks" \in ran[r]
          /\ inv[r].vtl => "vtl" \in ran[r]

\* C23 (as stated): the phases run Loader, Resolver and Client Generator,
\* Mock Generator, Template Generator, Contract Test Generator: once the
\* Template Generator has started, the Mock Generator of a run with mocks
\* enabled has run.
C23_MocksBeforeTemplates ==
    \A r \in Runs :
        /\ OrderAroundGenerators(r)
        /\ ("vtl" \in ran[r] /\ inv[r].mocks) => "mocks" \in ran[r]

\* C23 (amended): the phases run Loader, Client Generator and Resolver,
\* Template Generator, Mock Generator, Contract Test Generator: once the
\* Mock Generator has started, the Template Generator of a run with
\* templates enabled has run, and the client source was written before.
C23_TemplatesBeforeMocks ==
    \A r \in Runs :
        /\ OrderAroundGenerators(r)
        /\ ("mocks" \in ran[r] /\ inv[r].vtl) => "vtl" \in ran[r]
        /\ pc[r] = "vtl" => "mocks" \notin ran[r]

\* C23: a run with the three optional phases on has finished; the Template
\* Generator started before the ignore file (written right after it) was
\* there and found no mock, the Mock Generator started after.
C23_TemplateGeneratorRanFirst ==
    \E r \in Runs :
        /\ Done(r) /\ ran[r] = OptionalPhases /\ FailedPhases(r) = {}
        /\ <<".gitignore">> \notin DOMAIN phaseStart[r]["vtl"]
        /\ <<".gitignore">> \in DOMAIN phaseStart[r]["mocks"]
        /\ <<"apiClientMock.ts">> \notin DOMAIN phaseStart[r]["vtl"]
        /\ <<"apiClientMock.ts">> \in DOMAIN result[r].files

---------------------------------------------------------------------------
(* The flags of the optional phases                                        *)

\* the run got through its mandatory phases and has ended
Completed(r) == Done(r) /\ MandatoryOk(r)

\* C24 (as stated): every optional stage runs if and only if its own flag
\* leaves it enabled, whatever the other flags are.
C24_EachStageOwnFlagOnly ==
    \A r \in Runs :
        Completed(r) =>
            /\ "vtl" \in ran[r] <=> inv[r].vtl
            /\ "mocks" \in ran[r] <=> inv[r].mocks
            /\ "tests" \in ran[r] <=> inv[r].tests

\* C24 (amended): the Template Generator and the Mock Generator run if and
\* only if their own flag leaves them enabled; the Contract Test Generator
\* runs if and only if both its own flag and the mocks flag do.
C24_TestsNeedMocksToo ==
    \A r \in Runs :
        Completed(r) =>
            /\ "vtl" \in ran[r] <=> inv[r].vtl
            /\ "mocks" \in ran[r] <=> inv[r].mocks
            /\ "tests" \in ran[r] <=> (inv[r].tests /\ inv[r].mocks)

\* C24: a run with mocks disabled and contract tests and templates enabled
\* has ended with code 0; of the optional stages only the Template Generator
\* ran, and no contract test was written.
C24_NoMocksAloneSkipsTests ==
    \E r \in Runs :
        /\ Completed(r) /\ exitCode[r] = 0
        /\ ~inv[r].mocks /\ inv[r].tests /\ inv[r].vtl
        /\ ran[r] = {"vtl"}
        /\ ~\E p \in written[r] : p[1] = "contract"
        /\ endpointsDef[r] # <<>>

---------------------------------------------------------------------------
(* Properties of the loader within a run                                   *)

\* the loader of run r has returned its records
LoaderReturned(r) == pc[r] \notin {"idle", "main", "load"} /\ inv[r].module.readable

NamesOf(items) == [i \in DOMAIN items |-> items[i].name]

---------------------------------------------------------------------------
(* The resolver invoked on its own for one type over two search roots      *)

MaxFiles == 2

\* files of a search root: named after the type, after a variant of it, a
\* file that declares the type among others, one that does not mention it,
\* and one that is not a .ts file
ResolveFiles ==
    { SrcFile("", "Topping", "", TRUE, {"Topping"}),
      SrcFile("I", "Topping", "", TRUE, {"Topping"}),
      SrcFile("", "models", "", TRUE, {"Topping", "SearchReq"}),
      SrcFile("", "internal", "", TRUE, {}),
      SrcFile("", "notes", "", FALSE, {"Topping"}) }

\* a root that does not exist, or one that lists up to MaxFiles files in
\* some order
ResolveDirs ==
    {SrcDir(FALSE, <<>>)} \cup
    {SrcDir(TRUE, s) : s \in {t \in UNION {[1..n -> ResolveFiles] : n \in 0..MaxFiles} :
                                 \A i, j \in DOMAIN t : i # j => t[i] # t[j]}}

InitResolve ==
    \E d1 \in ResolveDirs, d2 \in ResolveDirs, m \in {x \in Modules : ~x.readable} :
        /\ inv = [r \in Runs |->
                    Invocation("publishedApi", m, "out1", FALSE, FALSE, FALSE,
                               "none", FALSE, "no", FALSE)]
        /\ disk = [d \in OutDirs |-> Absent]
        /\ pc = [r \in Runs |-> "idle"]
        /\ vtlInput = NoVtlInput
        /\ endpointsDef = [r \in Runs |-> <<>>]
        /\ exitCode = [r \in Runs |-> -1]
        /\ logged = [r \in Runs |-> {}]
        /\ written = [r \in Runs |-> {}]
        /\ before = [r \in Runs |-> Absent]
        /\ result = [r \in Runs |-> Absent]
        /\ phaseStart = [r \in Runs |-> [ph \in OptionalPhases |-> NoFiles]]
        /\ ran = [r \in Runs |-> {}]
        /\ toolCalls = 0
        /\ indexAfter = <<>>
        /\ call = [op |-> "resolve", typeName |-> "Topping", roots |-> <<d1, d2>>]
        /\ outcome = NoCall

\* findAndAddInterfaceFile(typeName, searchDirs, interfaceFiles)
Resolve ==
    /\ call.op = "resolve"
    /\ outcome = NoCall
    /\ outcome' = [op |-> "resolved",
                   hit |-> findAndAddInterfaceFile(call.typeName, call.roots)]
    /\ UNCHANGED <<inv, pc, endpointsDef, exitCode, logged, written, disk, before,
                   result, phaseStart, ran, toolCalls, indexAfter, vtlInput, call>>

NextResolve == Resolve

SpecResolve == InitResolve /\ [][NextResolve]_vars

Resolved == outcome.op = "resolved"

\* the roots that hold a file named after a variant of the type / a .ts file
\* whose text declares the type
NameRoots ==
    {d \in DOMAIN call.roots :
        /\ call.roots[d].exists
        /\ \E k \in DOMAIN call.roots[d].files :
              call.roots[d].files[k].name \in Range(fileVariants(call.typeName))}

ScanRoots ==
    {d \in DOMAIN call.roots :
        /\ call.roots[d].exists
        /\ \E k \in DOMAIN call.roots[d].files :
              /\ call.roots[d].files[k].ts
              /\ call.typeName \in call.roots[d].files[k].mentions}

FoundByName == outcome.hit.found /\ outcome.hit.name \in Range(fileVariants(call.typeName))

\* C26 (as stated): the name variants are tried in every root before any
\* scan: whenever some root holds a file named after a variant, the file
\* chosen is one found by name, in the first such root.
C26_NameInAnyRootBeatsScan ==
    Resolved =>
        /\ outcome.hit.found <=> (NameRoots \cup ScanRoots # {})
        /\ NameRoots # {} =>
              /\ FoundByName
              /\ outcome.hit.dir \in NameRoots
              /\ \A d \in NameRoots : outcome.hit.dir <= d

\* C26 (amended): the roots are tried in order, in each one the name
\* variants and then a scan: the file chosen is in the first root that
\* holds a match of either kind, and is one found by scan only if no name
\* variant matches in that root.
C26_EarlierRootBeatsLaterRoot ==
    Resolved =>
        /\ outcome.hit.found <=> (NameRoots \cup ScanRoots # {})
        /\ outcome.hit.found =>
              /\ outcome.hit.dir \in NameRoots \cup ScanRoots
              /\ \A d \in NameRoots \cup ScanRoots : outcome.hit.dir <= d
              /\ FoundByName <=> outcome.hit.dir \in NameRoots

\* C26: the first root holds only a file that declares the type in its
\* text, the second a file named after the type: the resolver chose the
\* file of the first root.
C26_ScanHitInFirstRootChosen ==
    /\ Resolved
    /\ NameRoots = {2} /\ 1 \in ScanRoots
    /\ outcome.hit = [found |-> TRUE, dir |-> 1, name |-> <<"", "models", "">>]

---------------------------------------------------------------------------
(* DefinedInternalApi: the gateway resources of the endpoint paths         *)

MaxPaths == 3

\* a path is its text in tokens: segments separated by "/" tokens
EndpointPaths ==
    { <<"toppings">>,
      <<"toppings", "/", "{toppingName}">>,
      <<"toppings", "/", "search">>,
      <<"orders", "/", "{id}", "/", "items">>,
      <<"/", "toppings">>,
      <<"toppings", "/">> }

\* path.split("/"): the text between the separators, "" where there is none
RECURSIVE split(_)
split(text) ==
    IF text = <<>> THEN <<"">>
    ELSE IF Head(text) = "/" THEN <<"">> \o split(Tail(text))
    ELSE IF Len(text) = 1 THEN <<Head(text)>>
    ELSE <<Head(text)>> \o split(Tail(Tail(text)))

\* currentPath.substring(0, currentPath.lastIndexOf("/"))
beforeLastSlash(text) ==
    LET slashes == {i \in DOMAIN text : text[i] = "/"}
        last == CHOOSE i \in slashes : \A j \in slashes : j <= i
    IN  IF slashes = {} THEN <<>> ELSE SubSeq(text, 1, last - 1)

\* the resource of the gateway root
RootResource == <<>>

\* pathParts.forEach((pathPart, ind) => ...) from index ind on: a resource
\* is added under the gateway root for part 0 and under the resource of the
\* text before the last slash for the others; adding under a resource that
\* is not in the map throws
RECURSIVE forEachPart(_, _, _, _)
forEachPart(parts, ind, currentPath, resources) ==
    IF ind >= Len(parts) THEN [threw |-> FALSE, resources |-> resources]
    ELSE LET pathPart == parts[ind + 1]
             cur == IF ind = 0 THEN <<pathPart>> ELSE currentPath \o <<"/", pathPart>>
             parent == IF ind = 0 THEN RootResource ELSE beforeLastSlash(cur)
         IN  IF pathPart = ""
             THEN forEachPart(parts, ind + 1, currentPath, resources)
             ELSE IF cur \in DOMAIN resources
             THEN forEachPart(parts, ind + 1, cur, resources)
             ELSE IF ind # 0 /\ parent \notin DOMAIN resources
             THEN [threw |-> TRUE, resources |-> resources]
             ELSE forEachPart(parts, ind + 1, cur,
                              Put(resources, cur, [under |-> parent, part |-> pathPart]))

\* createEndpointPath({ path }): the map after the call and
\* this.resources[path], which is undefined for a text that is no key
createEndpointPath(resources, path) ==
    LET res == forEachPart(split(path), 0, <<>>, resources)
    IN  [threw |-> res.threw,
         resources |-> res.resources,
         returned |-> IF res.threw THEN <<>>
                      ELSE IF path \in DOMAIN res.resources
                           THEN <<[path |-> path, defined |-> TRUE,
                                   resource |-> res.resources[path]]>>
                           ELSE <<[path |-> path, defined |-> FALSE,
                                   resource |-> [under |-> RootResource, part |-> ""]]>>]

\* new DefinedInternalApi(scope, id, props): the paths of
\* props.apiClientDefinition in the order of its entries
InitConstruct ==
    \E paths \in UNION {[1..n -> EndpointPaths] : n \in 1..MaxPaths},
       m \in {x \in Modules : ~x.readable} :
        /\ inv = [r \in Runs |->
                    Invocation("publishedApi", m, "out1", FALSE, FALSE, FALSE,
                               "none", FALSE, "no", FALSE)]
        /\ disk = [d \in OutDirs |-> Absent]
        /\ pc = [r \in Runs |-> "idle"]
        /\ vtlInput = NoVtlInput
        /\ endpointsDef = [r \in Runs |-> <<>>]
        /\ exitCode = [r \in Runs |-> -1]
        /\ logged = [r \in Runs |-> {}]
        /\ written = [r \in Runs |-> {}]
        /\ before = [r \in Runs |-> Absent]
        /\ result = [r \in Runs |-> Absent]
        /\ phaseStart = [r \in Runs |-> [ph \in OptionalPhases |-> NoFiles]]
        /\ ran = [r \in Runs |-> {}]
        /\ toolCalls = 0
        /\ indexAfter = <<>>
        /\ call = [op |-> "construct", paths |-> paths]
        /\ outcome = [op |-> "construct", threw |-> FALSE, resources |-> NoFiles,
                      returned |-> <<>>]

\* one round of the constructor's forEach over the endpoints; an exception
\* ends the constructor
CreateEndpointPath ==
    /\ call.op = "construct"
    /\ ~outcome.threw
    /\ Len(outcome.returned) < Len(call.paths)
    /\ LET res == createEndpointPath(outcome.resources,
                                     call.paths[Len(outcome.returned) + 1])
       IN  outcome' = [op |-> "construct", threw |-> res.threw,
                       resources |-> res.resources,
                       returned |-> outcome.returned \o res.returned]
    /\ UNCHANGED <<inv, pc, endpointsDef, exitCode, logged, written, disk, before,
                   result, phaseStart, ran, toolCalls, indexAfter, vtlInput, call>>

NextConstruct == CreateEndpointPath

SpecConstruct == InitConstruct /\ [][NextConstruct]_vars

\* the segments of a path text
Segments(text) == SelectSeq(text, LAMBDA t : t # "/")

\* the paths the constructor has passed to createEndpointPath so far
Requested ==
    {call.paths[i] : i \in 1..(IF outcome.threw THEN Len(outcome.returned) + 1
                               ELSE Len(outcome.returned))}

\* the distinct prefixes, in segments, of the requested paths
RequestedPrefixes ==
    UNION {{SubSeq(Segments(p), 1, n) : n \in 1..Len(Segments(p))} : p \in Requested}

\* C27: after any sequence of createEndpointPath calls the map holds exactly
\* one resource per distinct prefix of the requested paths, every resource
\* of several segments was added under the resource of its parent prefix,
\* and every call returned the defined resource of the path it was given,
\* a path with a leading or a trailing slash included.
C27_OneResourcePerPrefixAndReturned ==
    call.op = "construct" =>
        /\ ~outcome.threw
        /\ {Segments(k) : k \in DOMAIN outcome.resources} = RequestedPrefixes
        /\ Cardinality(DOMAIN outcome.resources) = Cardinality(RequestedPrefixes)
        /\ \A k \in DOMAIN outcome.resources :
              Len(Segments(k)) > 1 =>
                  /\ outcome.resources[k].under \in DOMAIN outcome.resources
                  /\ Segments(outcome.resources[k].under)
                        = SubSeq(Segments(k), 1, Len(Segments(k)) - 1)
        /\ \A i \in DOMAIN outcome.returned :
              /\ outcome.returned[i].defined
              /\ outcome.returned[i].resource.part
                    = Segments(call.paths[i])[Len(Segments(call.paths[i]))]

\* C27: the constructor was given `toppings/{toppingName}` and then
\* `toppings/`: the second call reused the resource of `toppings` and
\* returned undefined.
C27_TrailingSlashReturnsUndefined ==
    /\ call.op = "construct"
    /\ Len(outcome.returned) = 2
    /\ call.paths[1] = <<"toppings", "/", "{toppingName}">>
    /\ call.paths[2] = <<"toppings", "/">>
    /\ outcome.returned[1].defined
    /\ ~outcome.returned[2].defined
    /\ Cardinality(DOMAIN outcome.resources) = 2

---------------------------------------------------------------------------
(* Where the resolved interface files end up                               *)

\* the types run r looked up and found in the source tree
ResolvedTypes(r) ==
    {t \in Range(LookedUp(endpointsDef[r])) :
        findAndAddInterfaceFile(t, inv[r].module.roots).found}

\* C28: for every type the resolver resolved, the output directory holds
\* interfaces/<TypeName>.ts after the run, so that the import of the type in
\* the generated client resolves and the Template Generator finds the type,
\* also when the file was matched under a name variant or by scan.
C28_ResolvedTypeAtImportPath ==
    \A r \in Runs :
        (Completed(r) /\ exitCode[r] = 0) =>
            \A t \in ResolvedTypes(r) :
                /\ t \in Range(result[r].files[<<"apiClient.ts">>].imports)
                /\ InterfacePath(<<"", t, "">>) \in DOMAIN result[r].files
                /\ InterfaceExists(result[r].files, t)

\* C28: a run has ended with code 0 whose client imports SearchReq from
\* ./interfaces/SearchReq; the resolver found the type in ISearchReq.ts and
\* copied it to interfaces/ISearchReq.ts, and interfaces/SearchReq.ts is
\* not there.
C28_VariantCopiedUnderOwnName ==
    \E r \in Runs :
        /\ Completed(r) /\ exitCode[r] = 0
        /\ "SearchReq" \in ResolvedTypes(r)
        /\ "SearchReq" \in Range(result[r].files[<<"apiClient.ts">>].imports)
        /\ InterfacePath(<<"I", "SearchReq", "">>) \in DOMAIN result[r].files
        /\ InterfacePath(<<"", "SearchReq", "">>) \notin DOMAIN result[r].files

---------------------------------------------------------------------------
(* The loader invoked on its own on a declaration module                   *)

LoadNames == {"checklist", "list", "searchToppings"}

\* the property and the annotation a module has for an endpoint name
PropOf(name) ==
    CASE name = "checklist" -> Prop("checklist", "checklists/{id}", "GET", "compute", "", "")
      [] name = "list" -> Prop("list", "lists", "POST", "compute", "", "")
      [] name = "searchToppings" -> SearchToppings

AnnotOf(name, shape) ==
    CASE name = "checklist" -> Annot("checklist", "GET", "never", "Checklist", shape)
      [] name = "list" -> Annot("list", "POST", "ListReq", "ListItem", shape)
      [] name = "searchToppings" -> Annot("searchToppings", "POST", "SearchReq", "Topping", shape)

\* one or two distinct endpoint names in some order
NameSeqs ==
    {<<a>> : a \in LoadNames} \cup
    {s \in {<<a, b>> : a \in LoadNames, b \in LoadNames} : s[1] # s[2]}

\* declaration modules: the properties in one order, the annotations of the
\* same endpoints in some order, each on one line or spread over several,
\* with or without the `endpoints` binding the structural pass looks for
LoaderModules ==
    {Module(TRUE, binding, TRUE,
            [i \in DOMAIN names |-> PropOf(names[i])],
            [i \in DOMAIN typed |-> AnnotOf(typed[i], shapes[i])],
            TreeByName, FALSE) :
        binding \in BOOLEAN,
        names \in NameSeqs,
        typed \in NameSeqs,
        shapes \in [1..2 -> {"inline", "split"}]}

InitLoad ==
    \E m \in {x \in LoaderModules :
                 Range(NamesOf(x.props)) = Range(NamesOf(x.annots))},
       unread \in {x \in Modules : ~x.readable} :
        /\ inv = [r \in Runs |->
                    Invocation("publishedApi", unread, "out1", FALSE, FALSE, FALSE,
                               "none", FALSE, "no", FALSE)]
        /\ disk = [d \in OutDirs |-> Absent]
        /\ pc = [r \in Runs |-> "idle"]
        /\ vtlInput = NoVtlInput
        /\ endpointsDef = [r \in Runs |-> <<>>]
        /\ exitCode = [r \in Runs |-> -1]
        /\ logged = [r \in Runs |-> {}]
        /\ written = [r \in Runs |-> {}]
        /\ before = [r \in Runs |-> Absent]
        /\ result = [r \in Runs |-> Absent]
        /\ phaseStart = [r \in Runs |-> [ph \in OptionalPhases |-> NoFiles]]
        /\ ran = [r \in Runs |-> {}]
        /\ toolCalls = 0
        /\ indexAfter = <<>>
        /\ call = [op |-> "importEndpoints", module |-> m]
        /\ outcome = NoCall

\* importEndpoints(filePath)
ImportEndpoints ==
    /\ call.op = "importEndpoints"
    /\ outcome = NoCall
    /\ outcome' = [op |-> "imported", records |-> importEndpoints(call.module).records]
    /\ UNCHANGED <<inv, pc, endpointsDef, exitCode, logged, written, disk, before,
                   result, phaseStart, ran, toolCalls, indexAfter, vtlInput, call>>

NextLoad == ImportEndpoints

SpecLoad == InitLoad /\ [][NextLoad]_vars

Imported == outcome.op = "imported"

\* the annotation the module has for endpoint `name`
OwnAnnot(name) ==
    CHOOSE a \in Range(call.module.annots) : a.name = name

\* C29: the input and output type names of every loaded record are those
\* of the endpoint's own ApiEndpoint annotation (input `never` giving no
\* input type), never those of another endpoint whose name ends with its
\* name, and also when the annotation is spread over several lines.
C29_TypesFromOwnAnnotation ==
    Imported =>
        \A i \in DOMAIN outcome.records :
            LET e == outcome.records[i]
                a == OwnAnnot(e.name)
            IN  /\ e.input = (IF a.input = "never" THEN NoType ELSE a.input)
                /\ e.output = a.output

\* C29: the module annotates `checklist` before `list`, both on one line:
\* the record of `list` has the types of `checklist`.
C29_SuffixNameTakesOtherTypes ==
    /\ Imported
    /\ call.module.binding
    /\ NamesOf(call.module.annots) = <<"checklist", "list">>
    /\ \A i \in DOMAIN call.module.annots : call.module.annots[i].shape = "inline"
    /\ \E i \in DOMAIN outcome.records :
          /\ outcome.records[i].name = "list"
          /\ outcome.records[i].input = NoType
          /\ outcome.records[i].output = "Checklist"

---------------------------------------------------------------------------
(* C30: the output directory main chooses                                  *)

\* main is past its argument check and has called generateApiClient
Generating == pc[1] # "main" /\ "Usage" \notin logged[1]

\* the third positional argument, or the default
ExpectedOutputDir ==
    IF Len(Positionals) >= 3 THEN Positionals[3] ELSE "generatedClient"

\* C30: the directory a run clears and writes is the third positional
\* argument when one is given and `generatedClient` otherwise: a flag right
\* after the declaration path is never taken as the output directory, no
\* directory named like a flag is touched, and the declaration path is a
\* positional argument, never a flag.
C30_OutputDirIsThirdPositional ==
    /\ \A f \in Flags : disk[f] = disk["out2"]
    /\ Generating =>
          /\ Len(Positionals) >= 2
          /\ inv[1].outDir = ExpectedOutputDir
          /\ \A d \in MainDirs \ {ExpectedOutputDir} : disk[d] = disk["out2"]

\* C30: `publishedApi endpoints.ts --no-mocks`: the run has ended with code
\* 0 without mocks, and the client was written into a directory named
\* --no-mocks, while generatedClient is as it was.
C30_FlagTakenForOutputDir ==
    /\ Done(1) /\ exitCode[1] = 0
    /\ call.args = <<"publishedApi", "endpoints.ts", "--no-mocks">>
    /\ inv[1].outDir = "--no-mocks"
    /\ ~inv[1].mocks
    /\ <<"apiClient.ts">> \in DOMAIN disk["--no-mocks"].files
    /\ disk["generatedClient"] = disk["out2"]

===========================================================================
